---- MODULE Spec2Model ----
(***************************************************************************)
(* Model of the fragmented-MP4 muxer of packages/wasm-core                 *)
(* (muxide_muxer.rs and its WASM wrapper in lib.rs).                       *)
(*                                                                         *)
(* Byte strings (Vec<u8>) are sequences of naturals below 256, so every    *)
(* box is built byte for byte, and the properties are stated on the bytes  *)
(* of the emitted segments, read back by an independent box reader.        *)
(* Offsets are 0-based as in the source; At(b, i) is b[i] of the source.   *)
(* Every number the bounded model produces is below 2^31.                  *)
(***************************************************************************)
EXTENDS Integers, Sequences, FiniteSets, TLC

(***************************************************************************)
(* Bounds of the model                                                     *)
(***************************************************************************)
\* calls of push_video_chunk accepted by the model
MaxVideoFrames == 3
\* calls of push_audio_chunk accepted by the model
MaxAudioFrames == 2
\* calls of push_video_chunk and push_audio_chunk together
MaxFrames == 4

(***************************************************************************)
(* Inputs the caller draws from                                            *)
(***************************************************************************)
\* video frames the caller pushes: AVCC framed data ([4-byte length][NAL]),
\* the keyframe flag, and the gap in microseconds since the previous video
\* timestamp (video timestamps never decrease); a keyframe closes the fragment
\* of fragment_duration_ms, the frames between keyframes come 1111 us apart
VideoFrames ==
    { [data |-> <<0, 0, 0, 1, 101>>, is_keyframe |-> TRUE, delta |-> 5000],
      [data |-> <<0, 0, 0, 2, 65, 154>>, is_keyframe |-> FALSE, delta |-> 1111] }
\* audio frames: raw AAC access unit, timestamp and duration in microseconds
\* (audio timestamps never decrease)
AudioFrames ==
    { [data |-> <<33>>, timestamp |-> 0, duration |-> 21333],
      [data |-> <<33, 16, 4>>, timestamp |-> 21333, duration |-> 10000] }

(***************************************************************************)
(* Option<T>: None is the empty set, Some(x) the singleton                 *)
(***************************************************************************)
None == {}
Some(x) == {x}
is_some(o) == o # {}
unwrap_or(o, d) == IF o = {} THEN d ELSE CHOOSE x \in o : TRUE

(***************************************************************************)
(* Result<T, String> of the last call, as the caller sees it.  val is a    *)
(* list of byte strings: empty for (), one element for a Vec<u8>.          *)
(***************************************************************************)
Ok(op, val) == [op |-> op, ok |-> TRUE, err |-> "", val |-> val, flag |-> FALSE]
Err(op, msg) == [op |-> op, ok |-> FALSE, err |-> msg, val |-> <<>>, flag |-> FALSE]
OkBool(op, b) == [op |-> op, ok |-> TRUE, err |-> "", val |-> <<>>, flag |-> b]

(***************************************************************************)
(* Integer to bytes                                                        *)
(***************************************************************************)
Zeros(n) == [i \in 1..n |-> 0]

u16_to_be_bytes(x) == <<(x \div 256) % 256, x % 256>>

u32_to_be_bytes(x) ==
    <<(x \div 16777216) % 256, (x \div 65536) % 256, (x \div 256) % 256, x % 256>>

\* u64: the high word is x div 2^32
u64_to_be_bytes(x) ==
    u32_to_be_bytes((x \div 65536) \div 65536) \o u32_to_be_bytes(x)

\* i32 in two's complement: a negative x is the complement of -x - 1
i32_to_be_bytes(x) ==
    IF x >= 0 THEN u32_to_be_bytes(x)
    ELSE LET c == u32_to_be_bytes((0 - x) - 1)
         IN  <<255 - c[1], 255 - c[2], 255 - c[3], 255 - c[4]>>

\* (x << 16) as u32: the low 16 bits of x move to the high half
shl16_to_be_bytes(x) == u16_to_be_bytes(x % 65536) \o <<0, 0>>

\* `as u32` of a u64: the low 32 bits (x mod 2^32)
as_u32(x) == x - (((x \div 65536) \div 65536) * 65536) * 65536

RECURSIVE concat(_)
\* concatenation of a list of byte strings (extend_from_slice in a loop)
concat(list) ==
    IF list = <<>> THEN <<>> ELSE Head(list) \o concat(Tail(list))

RECURSIVE sum(_)
\* iter().sum()
sum(list) == IF list = <<>> THEN 0 ELSE Head(list) + sum(Tail(list))

(***************************************************************************)
(* Box tags                                                                *)
(***************************************************************************)
\* the four bytes of each box type written, b"ftyp" and so on
T ==
    [ftyp |-> <<102, 116, 121, 112>>,
     moov |-> <<109, 111, 111, 118>>,
     mvhd |-> <<109, 118, 104, 100>>,
     mvex |-> <<109, 118, 101, 120>>,
     trex |-> <<116, 114, 101, 120>>,
     trak |-> <<116, 114, 97, 107>>,
     tkhd |-> <<116, 107, 104, 100>>,
     mdia |-> <<109, 100, 105, 97>>,
     mdhd |-> <<109, 100, 104, 100>>,
     hdlr |-> <<104, 100, 108, 114>>,
     minf |-> <<109, 105, 110, 102>>,
     vmhd |-> <<118, 109, 104, 100>>,
     smhd |-> <<115, 109, 104, 100>>,
     dinf |-> <<100, 105, 110, 102>>,
     dref |-> <<100, 114, 101, 102>>,
     url |-> <<117, 114, 108, 32>>,
     stbl |-> <<115, 116, 98, 108>>,
     stsd |-> <<115, 116, 115, 100>>,
     avc1 |-> <<97, 118, 99, 49>>,
     avcC |-> <<97, 118, 99, 67>>,
     mp4a |-> <<109, 112, 52, 97>>,
     esds |-> <<101, 115, 100, 115>>,
     stts |-> <<115, 116, 116, 115>>,
     stsc |-> <<115, 116, 115, 99>>,
     stsz |-> <<115, 116, 115, 122>>,
     stco |-> <<115, 116, 99, 111>>,
     moof |-> <<109, 111, 111, 102>>,
     mfhd |-> <<109, 102, 104, 100>>,
     traf |-> <<116, 114, 97, 102>>,
     tfhd |-> <<116, 102, 104, 100>>,
     tfdt |-> <<116, 102, 100, 116>>,
     trun |-> <<116, 114, 117, 110>>,
     mdat |-> <<109, 100, 97, 116>>]

(***************************************************************************)
(* Box writer                                                              *)
(***************************************************************************)
\* the size field holding the length of the payload alone
build_box_payload_size(typ, payload) ==
    u32_to_be_bytes(Len(payload)) \o typ \o payload

build_box(typ, payload) ==
    u32_to_be_bytes(8 + Len(payload)) \o typ \o payload

(***************************************************************************)
(* Init segment: ftyp + moov                                               *)
(***************************************************************************)
build_ftyp ==
    build_box(T.ftyp,
        <<105, 115, 111, 53>> \o u32_to_be_bytes(0) \o <<105, 115, 111, 53>>
        \o <<105, 115, 111, 54>> \o <<109, 112, 52, 49>>)

build_mvhd(timescale, next_track_id) ==
    build_box(T.mvhd,
        u32_to_be_bytes(0) \o u32_to_be_bytes(0) \o u32_to_be_bytes(0)
        \o u32_to_be_bytes(timescale) \o u32_to_be_bytes(0)
        \o u32_to_be_bytes(65536) \o u16_to_be_bytes(256) \o Zeros(10)
        \o u32_to_be_bytes(65536) \o Zeros(12)
        \o u32_to_be_bytes(65536) \o Zeros(12)
        \o u32_to_be_bytes(1073741824)
        \o Zeros(24) \o u32_to_be_bytes(next_track_id))

build_trex(track_id) ==
    build_box(T.trex,
        u32_to_be_bytes(0) \o u32_to_be_bytes(track_id) \o u32_to_be_bytes(1)
        \o u32_to_be_bytes(0) \o u32_to_be_bytes(0) \o u32_to_be_bytes(0))

build_mvex(has_audio) ==
    build_box(T.mvex,
        build_trex(1) \o (IF has_audio THEN build_trex(2) ELSE <<>>))

build_video_tkhd(config) ==
    build_box(T.tkhd,
        u32_to_be_bytes(3) \o u32_to_be_bytes(0) \o u32_to_be_bytes(0)
        \o u32_to_be_bytes(1) \o u32_to_be_bytes(0) \o u32_to_be_bytes(0)
        \o Zeros(8)
        \o u16_to_be_bytes(0) \o u16_to_be_bytes(0) \o u16_to_be_bytes(0)
        \o u16_to_be_bytes(0)
        \o u32_to_be_bytes(65536) \o Zeros(12)
        \o u32_to_be_bytes(65536) \o Zeros(12)
        \o u32_to_be_bytes(1073741824)
        \o shl16_to_be_bytes(config.video_width)
        \o shl16_to_be_bytes(config.video_height))

\* (c.saturating_sub(0x60) & 0x1F), packed 5 bits per letter
encode_language_code(language) ==
    LET five(c) == (IF c >= 96 THEN c - 96 ELSE 0) % 32
        c1 == IF Len(language) >= 1 THEN language[1] ELSE 117
        c2 == IF Len(language) >= 2 THEN language[2] ELSE 110
        c3 == IF Len(language) >= 3 THEN language[3] ELSE 100
    IN  u16_to_be_bytes(five(c1) * 1024 + five(c2) * 32 + five(c3))

build_mdhd(timescale) ==
    build_box(T.mdhd,
        u32_to_be_bytes(0) \o u32_to_be_bytes(0) \o u32_to_be_bytes(0)
        \o u32_to_be_bytes(timescale) \o u32_to_be_bytes(0)
        \o encode_language_code(<<117, 110, 100>>) \o u16_to_be_bytes(0))

build_hdlr(handler_type, name) ==
    build_box(T.hdlr,
        u32_to_be_bytes(0) \o u32_to_be_bytes(0) \o handler_type
        \o Zeros(12) \o name)

build_vmhd == build_box(T.vmhd, u32_to_be_bytes(1) \o Zeros(8))

build_dinf ==
    build_box(T.dinf,
        build_box(T.dref,
            u32_to_be_bytes(0) \o u32_to_be_bytes(1)
            \o build_box(T.url, <<0, 0, 0, 1>>)))

\* config.sps.get(i).copied().unwrap_or(d), i 0-based
get_or(bytes, i, d) == IF i < Len(bytes) THEN bytes[i + 1] ELSE d

build_avcc(config) ==
    build_box(T.avcC,
        <<1, get_or(config.sps, 1, 66), get_or(config.sps, 2, 0),
          get_or(config.sps, 3, 30), 255, 225>>
        \o u16_to_be_bytes(Len(config.sps) % 65536) \o config.sps
        \o <<1>>
        \o u16_to_be_bytes(Len(config.pps) % 65536) \o config.pps)

build_avc1(config) ==
    build_box(T.avc1,
        Zeros(6) \o u16_to_be_bytes(1) \o u16_to_be_bytes(0)
        \o u16_to_be_bytes(0) \o Zeros(12)
        \o u16_to_be_bytes(config.video_width % 65536)
        \o u16_to_be_bytes(config.video_height % 65536)
        \o u32_to_be_bytes(4718592) \o u32_to_be_bytes(4718592)
        \o u32_to_be_bytes(0) \o u16_to_be_bytes(1) \o Zeros(32)
        \o u16_to_be_bytes(24) \o u16_to_be_bytes(65535)
        \o build_avcc(config))

build_video_stsd(config) ==
    build_box(T.stsd,
        u32_to_be_bytes(0) \o u32_to_be_bytes(1) \o build_avc1(config))

build_empty_stts == build_box(T.stts, u32_to_be_bytes(0) \o u32_to_be_bytes(0))
build_empty_stsc == build_box(T.stsc, u32_to_be_bytes(0) \o u32_to_be_bytes(0))
build_empty_stsz ==
    build_box(T.stsz, u32_to_be_bytes(0) \o u32_to_be_bytes(0) \o u32_to_be_bytes(0))
build_empty_stco == build_box(T.stco, u32_to_be_bytes(0) \o u32_to_be_bytes(0))

build_video_stbl(config) ==
    build_box(T.stbl,
        build_video_stsd(config) \o build_empty_stts \o build_empty_stsc
        \o build_empty_stsz \o build_empty_stco)

build_video_minf(config) ==
    build_box(T.minf, build_vmhd \o build_dinf \o build_video_stbl(config))

build_video_mdia(config) ==
    build_box(T.mdia,
        build_mdhd(config.video_timescale)
        \o build_hdlr(<<118, 105, 100, 101>>,
                      <<86, 105, 100, 101, 111, 72, 97, 110, 100, 108, 101, 114, 0>>)
        \o build_video_minf(config))

build_video_trak(config) ==
    build_box(T.trak, build_video_tkhd(config) \o build_video_mdia(config))

build_audio_tkhd ==
    build_box(T.tkhd,
        u32_to_be_bytes(3) \o u32_to_be_bytes(0) \o u32_to_be_bytes(0)
        \o u32_to_be_bytes(2) \o u32_to_be_bytes(0) \o u32_to_be_bytes(0)
        \o Zeros(8)
        \o u16_to_be_bytes(0) \o u16_to_be_bytes(0) \o u16_to_be_bytes(256)
        \o u16_to_be_bytes(0)
        \o u32_to_be_bytes(65536) \o Zeros(12)
        \o u32_to_be_bytes(65536) \o Zeros(12)
        \o u32_to_be_bytes(1073741824)
        \o u32_to_be_bytes(0) \o u32_to_be_bytes(0))

build_smhd ==
    build_box(T.smhd, u32_to_be_bytes(0) \o u16_to_be_bytes(0) \o u16_to_be_bytes(0))

\* the length 128 written in the one-byte form
descriptor_length_short_128(len) ==
    IF len <= 128 THEN <<len % 256>>
    ELSE <<128 + ((len \div 2097152) % 128),
           128 + ((len \div 16384) % 128),
           128 + ((len \div 128) % 128),
           len % 128>>

\* the length field: 1 byte below 128, else 4 bytes of 7 bits each
descriptor_length(len) ==
    IF len < 128 THEN <<len % 256>>
    ELSE <<128 + ((len \div 2097152) % 128),
           128 + ((len \div 16384) % 128),
           128 + ((len \div 128) % 128),
           len % 128>>

\* ISO 14496-1 descriptor: tag, length, data
build_descriptor(tag, data) ==
    <<tag>> \o descriptor_length(Len(data)) \o data

sample_rate_index(sample_rate) ==
    CASE sample_rate = 96000 -> 0
      [] sample_rate = 88200 -> 1
      [] sample_rate = 64000 -> 2
      [] sample_rate = 48000 -> 3
      [] sample_rate = 44100 -> 4
      [] sample_rate = 32000 -> 5
      [] sample_rate = 24000 -> 6
      [] sample_rate = 22050 -> 7
      [] sample_rate = 16000 -> 8
      [] sample_rate = 12000 -> 9
      [] sample_rate = 11025 -> 10
      [] sample_rate = 8000 -> 11
      [] sample_rate = 7350 -> 12
      [] OTHER -> 3

\* the channel count written without channels.min(7)
build_audio_specific_config_unclamped(sample_rate, channels) ==
    LET index == sample_rate_index(sample_rate)
    IN  <<16 + (index \div 2), (((index % 2) * 128) + (channels * 8)) % 256>>

\* byte0 = (2 << 3) | (index >> 1); byte1 = ((index & 1) << 7) | (channels.min(7) << 3)
build_audio_specific_config(sample_rate, channels) ==
    LET index == sample_rate_index(sample_rate)
        channel_config == (IF channels < 7 THEN channels ELSE 7) % 256
    IN  <<16 + (index \div 2), ((index % 2) * 128) + (channel_config * 8)>>

build_esds(config) ==
    LET sample_rate == unwrap_or(config.audio_sample_rate, 48000)
        channels == unwrap_or(config.audio_channels, 2)
        audio_specific_config ==
            unwrap_or(config.audio_specific_config,
                      build_audio_specific_config(sample_rate, channels))
        decoder_config ==
            <<64, 21>> \o <<0, 0, 0>> \o u32_to_be_bytes(128000)
            \o u32_to_be_bytes(128000)
            \o build_descriptor(5, audio_specific_config)
        es_descriptor ==
            u16_to_be_bytes(0) \o <<0>>
            \o build_descriptor(4, decoder_config)
            \o build_descriptor(6, <<2>>)
    IN  build_box(T.esds, u32_to_be_bytes(0) \o build_descriptor(3, es_descriptor))

build_mp4a(config) ==
    LET sample_rate == unwrap_or(config.audio_sample_rate, 48000)
        channels == unwrap_or(config.audio_channels, 2)
    IN  build_box(T.mp4a,
            Zeros(6) \o u16_to_be_bytes(1) \o u16_to_be_bytes(0)
            \o u16_to_be_bytes(0) \o u32_to_be_bytes(0)
            \o u16_to_be_bytes(channels) \o u16_to_be_bytes(16)
            \o u16_to_be_bytes(0) \o u16_to_be_bytes(0)
            \o shl16_to_be_bytes(sample_rate)
            \o build_esds(config))

build_audio_stsd(config) ==
    build_box(T.stsd,
        u32_to_be_bytes(0) \o u32_to_be_bytes(1) \o build_mp4a(config))

build_audio_stbl(config) ==
    build_box(T.stbl,
        build_audio_stsd(config) \o build_empty_stts \o build_empty_stsc
        \o build_empty_stsz \o build_empty_stco)

build_audio_minf(config) ==
    build_box(T.minf, build_smhd \o build_dinf \o build_audio_stbl(config))

build_audio_mdia(config) ==
    LET audio_timescale ==
            unwrap_or(config.audio_timescale,
                      unwrap_or(config.audio_sample_rate, 48000))
    IN  build_box(T.mdia,
            build_mdhd(audio_timescale)
            \o build_hdlr(<<115, 111, 117, 110>>,
                          <<83, 111, 117, 110, 100, 72, 97, 110, 100, 108, 101, 114, 0>>)
            \o build_audio_minf(config))

build_audio_trak(config) ==
    build_box(T.trak, build_audio_tkhd \o build_audio_mdia(config))

\* the audio track written whenever a sample rate is configured
build_moov_rate_only(config) ==
    LET has_audio_cfg == is_some(config.audio_sample_rate)
        next_track_id == IF has_audio_cfg THEN 3 ELSE 2
    IN  build_box(T.moov,
            build_mvhd(config.video_timescale, next_track_id)
            \o build_mvex(has_audio_cfg)
            \o build_video_trak(config)
            \o (IF has_audio_cfg THEN build_audio_trak(config) ELSE <<>>))

build_moov(config) ==
    LET has_audio_cfg ==
            is_some(config.audio_sample_rate) /\ is_some(config.audio_channels)
        next_track_id == IF has_audio_cfg THEN 3 ELSE 2
    IN  build_box(T.moov,
            build_mvhd(config.video_timescale, next_track_id)
            \o build_mvex(has_audio_cfg)
            \o build_video_trak(config)
            \o (IF has_audio_cfg THEN build_audio_trak(config) ELSE <<>>))

build_init_segment(config) == build_ftyp \o build_moov(config)

(***************************************************************************)
(* Media segment: moof + mdat                                              *)
(* VideoSample is [pts, dts, data, is_sync], AudioSample [pts, data,       *)
(* duration].                                                              *)
(***************************************************************************)
\* build_mfhd writing the number of the next segment (incremented before use)
build_mfhd_next(sequence_number) ==
    build_box(T.mfhd, u32_to_be_bytes(0) \o u32_to_be_bytes(sequence_number + 1))

build_mfhd(sequence_number) ==
    build_box(T.mfhd, u32_to_be_bytes(0) \o u32_to_be_bytes(sequence_number))

build_tfhd(track_id) ==
    build_box(T.tfhd, u32_to_be_bytes(131072) \o u32_to_be_bytes(track_id))

build_tfdt(base_media_decode_time) ==
    build_box(T.tfdt,
        u32_to_be_bytes(16777216) \o u64_to_be_bytes(base_media_decode_time))

\* the duration of the last sample always the default
video_sample_duration_no_repeat(samples, i) ==
    IF i + 1 <= Len(samples) THEN as_u32(samples[i + 1].dts - samples[i].dts)
    ELSE 3000

\* duration of sample i (1-based) as build_video_trun and
\* calculate_video_trun_total_duration both compute it
video_sample_duration(samples, i) ==
    IF i + 1 <= Len(samples) THEN as_u32(samples[i + 1].dts - samples[i].dts)
    ELSE IF i > 1 THEN as_u32(samples[i].dts - samples[i - 1].dts)
    ELSE 3000

\* the trun with every sample flagged as a sync sample
build_video_trun_all_sync(samples, data_offset) ==
    LET entry(i) ==
            u32_to_be_bytes(video_sample_duration(samples, i))
            \o u32_to_be_bytes(Len(samples[i].data))
            \o u32_to_be_bytes(33554432)
            \o i32_to_be_bytes(samples[i].pts - samples[i].dts)
    IN  build_box(T.trun,
            u32_to_be_bytes(16777216 + 3841)
            \o u32_to_be_bytes(Len(samples))
            \o u32_to_be_bytes(data_offset)
            \o concat([i \in 1..Len(samples) |-> entry(i)]))

\* flags 0x000F01 on version 1; per sample: duration, size, flags, cts
build_video_trun(samples, data_offset) ==
    LET entry(i) ==
            u32_to_be_bytes(video_sample_duration(samples, i))
            \o u32_to_be_bytes(Len(samples[i].data))
            \o u32_to_be_bytes(IF samples[i].is_sync THEN 33554432 ELSE 16842752)
            \o i32_to_be_bytes(samples[i].pts - samples[i].dts)
    IN  build_box(T.trun,
            u32_to_be_bytes(16777216 + 3841)
            \o u32_to_be_bytes(Len(samples))
            \o u32_to_be_bytes(data_offset)
            \o concat([i \in 1..Len(samples) |-> entry(i)]))

\* flags 0x000301 on version 0; per sample: duration, size
build_audio_trun(samples, data_offset) ==
    LET entry(i) ==
            u32_to_be_bytes(samples[i].duration)
            \o u32_to_be_bytes(Len(samples[i].data))
    IN  build_box(T.trun,
            u32_to_be_bytes(769)
            \o u32_to_be_bytes(Len(samples))
            \o u32_to_be_bytes(data_offset)
            \o concat([i \in 1..Len(samples) |-> entry(i)]))

build_video_traf(samples, base_media_decode_time, data_offset) ==
    build_box(T.traf,
        build_tfhd(1) \o build_tfdt(base_media_decode_time)
        \o build_video_trun(samples, data_offset))

build_audio_traf(samples, base_media_decode_time, data_offset) ==
    build_box(T.traf,
        build_tfhd(2) \o build_tfdt(base_media_decode_time)
        \o build_audio_trun(samples, data_offset))

\* the audio traf written whether or not audio samples are there
build_moof_av_always_audio(video_samples, audio_samples, sequence_number, video_base_decode_time, audio_base_decode_time, video_data_offset, audio_data_offset, has_audio) ==
    build_box(T.moof,
        build_mfhd(sequence_number)
        \o build_video_traf(video_samples, video_base_decode_time, video_data_offset)
        \o build_audio_traf(audio_samples, audio_base_decode_time,
                            audio_data_offset))

build_moof_av(video_samples, audio_samples, sequence_number, video_base_decode_time, audio_base_decode_time, video_data_offset, audio_data_offset, has_audio) ==
    build_box(T.moof,
        build_mfhd(sequence_number)
        \o build_video_traf(video_samples, video_base_decode_time, video_data_offset)
        \o (IF has_audio /\ audio_samples # <<>>
            THEN build_audio_traf(audio_samples, audio_base_decode_time,
                                  audio_data_offset)
            ELSE <<>>))

\* the first pass measuring a moof that has no audio traf yet
moof_placeholder_video_only(video_samples, audio_samples, sequence_number, video_base_decode_time, audio_base_decode_time, config) ==
    build_moof_av(video_samples, audio_samples, sequence_number,
                  video_base_decode_time, audio_base_decode_time, 0, 0, FALSE)

\* the first pass of build_media_segment_av: the moof with offsets 0 and 0
moof_placeholder(video_samples, audio_samples, sequence_number, video_base_decode_time, audio_base_decode_time, config) ==
    build_moof_av(video_samples, audio_samples, sequence_number,
                  video_base_decode_time, audio_base_decode_time, 0, 0,
                  is_some(config.audio_sample_rate)
                  /\ is_some(config.audio_channels)
                  /\ audio_samples # <<>>)

\* build_media_segment_av whose mdat size leaves out the 8 bytes of its header
build_media_segment_av_payload_size(video_samples, audio_samples, sequence_number, video_base_decode_time, audio_base_decode_time, config) ==
    LET has_audio ==
            is_some(config.audio_sample_rate)
            /\ is_some(config.audio_channels)
            /\ audio_samples # <<>>
        video_data_size ==
            sum([i \in 1..Len(video_samples) |-> Len(video_samples[i].data)])
        audio_data_size ==
            sum([i \in 1..Len(audio_samples) |-> Len(audio_samples[i].data)])
        mdat_payload_size == video_data_size + audio_data_size
        moof_size ==
            Len(build_moof_av(video_samples, audio_samples, sequence_number,
                              video_base_decode_time, audio_base_decode_time,
                              0, 0, has_audio))
        video_data_offset == moof_size + 8
        audio_data_offset == video_data_offset + video_data_size
        moof ==
            build_moof_av(video_samples, audio_samples, sequence_number,
                          video_base_decode_time, audio_base_decode_time,
                          video_data_offset, audio_data_offset, has_audio)
    IN  moof
        \o u32_to_be_bytes(mdat_payload_size) \o T.mdat
        \o concat([i \in 1..Len(video_samples) |-> video_samples[i].data])
        \o concat([i \in 1..Len(audio_samples) |-> audio_samples[i].data])

\* the segment with the audio data written before the video data
build_media_segment_av_audio_first(video_samples, audio_samples, sequence_number, video_base_decode_time, audio_base_decode_time, config) ==
    LET has_audio ==
            is_some(config.audio_sample_rate)
            /\ is_some(config.audio_channels)
            /\ audio_samples # <<>>
        video_data_size ==
            sum([i \in 1..Len(video_samples) |-> Len(video_samples[i].data)])
        audio_data_size ==
            sum([i \in 1..Len(audio_samples) |-> Len(audio_samples[i].data)])
        mdat_payload_size == video_data_size + audio_data_size
        moof_size ==
            Len(moof_placeholder(video_samples, audio_samples, sequence_number,
                                 video_base_decode_time, audio_base_decode_time,
                                 config))
        video_data_offset == moof_size + 8
        audio_data_offset == video_data_offset + video_data_size
        moof ==
            build_moof_av(video_samples, audio_samples, sequence_number,
                          video_base_decode_time, audio_base_decode_time,
                          video_data_offset, audio_data_offset, has_audio)
    IN  moof
        \o u32_to_be_bytes(8 + mdat_payload_size) \o T.mdat
        \o concat([i \in 1..Len(audio_samples) |-> audio_samples[i].data])
        \o concat([i \in 1..Len(video_samples) |-> video_samples[i].data])

build_media_segment_av(video_samples, audio_samples, sequence_number, video_base_decode_time, audio_base_decode_time, config) ==
    LET has_audio ==
            is_some(config.audio_sample_rate)
            /\ is_some(config.audio_channels)
            /\ audio_samples # <<>>
        video_data_size ==
            sum([i \in 1..Len(video_samples) |-> Len(video_samples[i].data)])
        audio_data_size ==
            sum([i \in 1..Len(audio_samples) |-> Len(audio_samples[i].data)])
        mdat_payload_size == video_data_size + audio_data_size
        moof_size ==
            Len(moof_placeholder(video_samples, audio_samples, sequence_number,
                                 video_base_decode_time, audio_base_decode_time,
                                 config))
        video_data_offset == moof_size + 8
        audio_data_offset == video_data_offset + video_data_size
        moof ==
            build_moof_av(video_samples, audio_samples, sequence_number,
                          video_base_decode_time, audio_base_decode_time,
                          video_data_offset, audio_data_offset, has_audio)
    IN  moof
        \o u32_to_be_bytes(8 + mdat_payload_size) \o T.mdat
        \o concat([i \in 1..Len(video_samples) |-> video_samples[i].data])
        \o concat([i \in 1..Len(audio_samples) |-> audio_samples[i].data])

(***************************************************************************)
(* MuxerState of muxer.rs, the muxer of one moof and one mdat per chunk:   *)
(* its box writers, as the bytes each appends                              *)
(***************************************************************************)
\* MuxerConfig::default()
MuxerConfig_default ==
    [video_codec |-> "avc1", audio_codec |-> "mp4a",
     video_width |-> 1280, video_height |-> 720,
     video_timescale |-> 30000, audio_timescale |-> 48000,
     audio_sample_rate |-> 48000, audio_channels |-> 2,
     video_codec_config |-> None, audio_codec_config |-> None]

\* size as four big-endian bytes, then the box type, onto self.buffer
write_box_header(size, box_type) == u32_to_be_bytes(size) \o box_type

\* size as four big-endian bytes, then the box type, onto buf
write_box_header_to_buf(size, box_type) == u32_to_be_bytes(size) \o box_type

write_ftyp ==
    LET ftyp_data == <<105, 115, 111, 53>> \o <<0, 0, 2, 0>> \o <<105, 115, 111, 53>> \o <<105, 115, 111, 54>> \o <<109, 112, 52, 49>>
    IN  write_box_header(8 + Len(ftyp_data), T.ftyp) \o ftyp_data

write_mvhd(cfg) ==
    LET mvhd_data ==
            Zeros(12)
            \o u32_to_be_bytes(cfg.video_timescale)
            \o Zeros(4) \o <<0, 1, 0, 0>> \o <<1, 0>> \o Zeros(2) \o Zeros(8)
            \o <<0, 1, 0, 0>> \o Zeros(12) \o <<0, 1, 0, 0>> \o Zeros(12)
            \o <<64, 0, 0, 0>>
            \o Zeros(24)
            \o <<0, 0, 0, 3>>
    IN  write_box_header_to_buf(8 + Len(mvhd_data), T.mvhd) \o mvhd_data

write_tkhd(cfg, track_id, is_video) ==
    LET tkhd_data ==
            <<0, 0, 0, 7>> \o Zeros(8)
            \o u32_to_be_bytes(track_id)
            \o Zeros(20)
            \o (IF is_video THEN <<0, 0>> ELSE <<1, 0>>)
            \o Zeros(2)
            \o <<0, 1, 0, 0>> \o Zeros(12) \o <<0, 1, 0, 0>> \o Zeros(12)
            \o <<64, 0, 0, 0>>
            \o (IF is_video
                THEN <<(cfg.video_width \div 256) % 256, cfg.video_width % 256,
                       0, 0,
                       (cfg.video_height \div 256) % 256, cfg.video_height % 256,
                       0, 0>>
                ELSE Zeros(4) \o Zeros(4))
    IN  write_box_header_to_buf(8 + Len(tkhd_data), T.tkhd) \o tkhd_data

write_mdhd(timescale) ==
    LET mdhd_data ==
            Zeros(12) \o u32_to_be_bytes(timescale)
            \o Zeros(4) \o <<85, 196>> \o Zeros(2)
    IN  write_box_header_to_buf(8 + Len(mdhd_data), T.mdhd) \o mdhd_data

write_hdlr(is_video) ==
    LET handler_type == IF is_video THEN <<118, 105, 100, 101>> ELSE <<115, 111, 117, 110>>
        name == IF is_video THEN <<86, 105, 100, 101, 111, 72, 97, 110, 100, 108, 101, 114, 0>> ELSE <<83, 111, 117, 110, 100, 72, 97, 110, 100, 108, 101, 114, 0>>
        hdlr_data == Zeros(8) \o handler_type \o Zeros(12) \o name
    IN  write_box_header_to_buf(8 + Len(hdlr_data), T.hdlr) \o hdlr_data

write_vmhd ==
    LET vmhd_data == <<0, 0, 0, 1>> \o Zeros(8)
    IN  write_box_header_to_buf(8 + Len(vmhd_data), T.vmhd) \o vmhd_data

write_smhd ==
    LET smhd_data == Zeros(8)
    IN  write_box_header_to_buf(8 + Len(smhd_data), T.smhd) \o smhd_data

write_dinf ==
    LET url_data == <<0, 0, 0, 1>>
        url_size == 8 + Len(url_data)
        dref_data == Zeros(4) \o <<0, 0, 0, 1>>
                     \o u32_to_be_bytes(url_size) \o T.url \o url_data
        dinf_data == write_box_header_to_buf(8 + Len(dref_data), T.dref)
                     \o dref_data
    IN  write_box_header_to_buf(8 + Len(dinf_data), T.dinf) \o dinf_data

\* the avc1 sample entry of write_stbl: size, type, fields and the avcC box
\* of the configured bytes if there are any
avc1_sample_entry(cfg) ==
    LET sample_entry ==
            Zeros(6) \o <<0, 1>>
            \o Zeros(16)
            \o u16_to_be_bytes(cfg.video_width % 65536)
            \o u16_to_be_bytes(cfg.video_height % 65536)
            \o <<0, 72, 0, 0>> \o <<0, 72, 0, 0>> \o Zeros(4) \o <<0, 1>>
            \o Zeros(32) \o <<0, 24>> \o <<255, 255>>
            \o (IF is_some(cfg.video_codec_config)
                THEN LET c == unwrap_or(cfg.video_codec_config, <<>>)
                     IN  u32_to_be_bytes(8 + Len(c)) \o T.avcC \o c
                ELSE <<>>)
        entry_size ==
            8 + 8 + 70
            + (IF is_some(cfg.video_codec_config)
               THEN 8 + Len(unwrap_or(cfg.video_codec_config, <<>>))
               ELSE 0)
    IN  u32_to_be_bytes(entry_size) \o T.avc1 \o sample_entry

\* the mp4a sample entry of write_stbl: size, type, fields and the esds box
\* of the configured bytes if there are any
mp4a_sample_entry(cfg) ==
    LET sample_entry ==
            Zeros(6) \o <<0, 1>>
            \o Zeros(8)
            \o u16_to_be_bytes(cfg.audio_channels)
            \o <<0, 16>> \o Zeros(2) \o Zeros(2)
            \o shl16_to_be_bytes(cfg.audio_sample_rate)
            \o (IF is_some(cfg.audio_codec_config)
                THEN LET c == unwrap_or(cfg.audio_codec_config, <<>>)
                     IN  u32_to_be_bytes(8 + Len(c)) \o T.esds \o c
                ELSE <<>>)
        entry_size ==
            8 + 8 + 20
            + (IF is_some(cfg.audio_codec_config)
               THEN 8 + Len(unwrap_or(cfg.audio_codec_config, <<>>))
               ELSE 0)
    IN  u32_to_be_bytes(entry_size) \o T.mp4a \o sample_entry

write_stbl(cfg, is_video) ==
    LET stsd_data == Zeros(4) \o <<0, 0, 0, 1>>
                     \o (IF is_video THEN avc1_sample_entry(cfg)
                         ELSE mp4a_sample_entry(cfg))
        stbl_data ==
            write_box_header_to_buf(8 + Len(stsd_data), T.stsd) \o stsd_data
            \o write_box_header_to_buf(8 + 8, T.stts) \o Zeros(8)
            \o write_box_header_to_buf(8 + 8, T.stsc) \o Zeros(8)
            \o write_box_header_to_buf(8 + 12, T.stsz) \o Zeros(12)
            \o write_box_header_to_buf(8 + 8, T.stco) \o Zeros(8)
    IN  write_box_header_to_buf(8 + Len(stbl_data), T.stbl) \o stbl_data

write_minf(cfg, is_video) ==
    LET minf_data == (IF is_video THEN write_vmhd ELSE write_smhd)
                     \o write_dinf
                     \o write_stbl(cfg, is_video)
    IN  write_box_header_to_buf(8 + Len(minf_data), T.minf) \o minf_data

write_mdia(cfg, track_id, timescale, is_video) ==
    LET mdia_data == write_mdhd(timescale)
                     \o write_hdlr(is_video)
                     \o write_minf(cfg, is_video)
    IN  write_box_header_to_buf(8 + Len(mdia_data), T.mdia) \o mdia_data

write_trak_video(cfg) ==
    LET trak_data == write_tkhd(cfg, 1, TRUE)
                     \o write_mdia(cfg, 1, cfg.video_timescale, TRUE)
    IN  write_box_header_to_buf(8 + Len(trak_data), T.trak) \o trak_data

write_trak_audio(cfg) ==
    LET trak_data == write_tkhd(cfg, 2, FALSE)
                     \o write_mdia(cfg, 2, cfg.audio_timescale, FALSE)
    IN  write_box_header_to_buf(8 + Len(trak_data), T.trak) \o trak_data

write_trex(track_id) ==
    LET trex_data == Zeros(4) \o u32_to_be_bytes(track_id)
                     \o <<0, 0, 0, 1>> \o Zeros(12)
    IN  write_box_header_to_buf(8 + Len(trex_data), T.trex) \o trex_data

write_mvex ==
    LET mvex_data == write_trex(1) \o write_trex(2)
    IN  write_box_header_to_buf(8 + Len(mvex_data), T.mvex) \o mvex_data

write_moov(cfg) ==
    LET moov_data == write_mvhd(cfg)
                     \o write_trak_video(cfg)
                     \o write_trak_audio(cfg)
                     \o write_mvex
    IN  write_box_header(8 + Len(moov_data), T.moov) \o moov_data

write_mfhd(sequence_number) ==
    LET mfhd_data == Zeros(4) \o u32_to_be_bytes(sequence_number)
    IN  write_box_header_to_buf(8 + Len(mfhd_data), T.mfhd) \o mfhd_data

write_tfhd(track_id) ==
    LET tfhd_data == <<0, 2, 0, 0>> \o u32_to_be_bytes(track_id)
    IN  write_box_header_to_buf(8 + Len(tfhd_data), T.tfhd) \o tfhd_data

\* write_tfdt of version 0, with a decode time of 32 bits
write_tfdt_v0(base_media_decode_time) ==
    LET tfdt_data == <<0, 0, 0, 0>> \o u32_to_be_bytes(base_media_decode_time)
    IN  write_box_header_to_buf(8 + Len(tfdt_data), T.tfdt) \o tfdt_data

write_tfdt(base_media_decode_time) ==
    LET tfdt_data == <<1, 0, 0, 0>> \o u64_to_be_bytes(base_media_decode_time)
    IN  write_box_header_to_buf(8 + Len(tfdt_data), T.tfdt) \o tfdt_data

write_trun(sample_size, sample_duration, data_offset, is_keyframe) ==
    LET trun_data == <<0, 0, 3, 1>>
                     \o <<0, 0, 0, 1>>
                     \o u32_to_be_bytes(data_offset)
                     \o u32_to_be_bytes(sample_duration)
                     \o u32_to_be_bytes(sample_size)
    IN  write_box_header_to_buf(8 + Len(trun_data), T.trun) \o trun_data

write_traf(cfg, track_id, timestamp, data_size, moof_size, is_keyframe) ==
    LET sample_duration == IF track_id = 1 THEN cfg.video_timescale \div 30
                           ELSE 1024
        data_offset == moof_size + 8
        traf_data == write_tfhd(track_id)
                     \o write_tfdt(timestamp)
                     \o write_trun(data_size, sample_duration, data_offset,
                                   is_keyframe)
    IN  write_box_header_to_buf(8 + Len(traf_data), T.traf) \o traf_data

write_moof_video(self, timestamp, data_size, is_keyframe) ==
    LET moof_size == 96
        moof_data == write_mfhd(self.video_sequence_number)
                     \o write_traf(self.config, 1, timestamp, data_size,
                                   moof_size, is_keyframe)
    IN  write_box_header(8 + Len(moof_data), T.moof) \o moof_data

write_moof_audio(self, timestamp, data_size) ==
    LET moof_size == 96
        moof_data == write_mfhd(self.audio_sequence_number)
                     \o write_traf(self.config, 2, timestamp, data_size,
                                   moof_size, FALSE)
    IN  write_box_header(8 + Len(moof_data), T.moof) \o moof_data

write_mdat(data) == write_box_header(8 + Len(data), T.mdat) \o data

\* MuxerState::new
MuxerState_new(cfg) ==
    [config |-> cfg, buffer |-> <<>>, video_sequence_number |-> 0,
     audio_sequence_number |-> 0, initialized |-> FALSE]

\* no method of MuxerState has been called
NoMuxerStateCall ==
    [args |-> <<>>, ret |-> Ok("new", <<>>), video_chunks |-> 0,
     audio_chunks |-> 0]

(***************************************************************************)
(* MuxideMuxerState                                                        *)
(***************************************************************************)
VARIABLES
    config,                        \* MuxideConfig, fixed at construction
    initialized,
    init_segment,
    pending_segments,
    video_frame_count,
    audio_frame_count,
    video_samples,
    video_sequence_number,
    video_base_media_decode_time,
    audio_samples,
    audio_sequence_number,
    audio_base_media_decode_time,
    emitted,                       \* history: every segment flush_segments built
    result,                        \* history: what the last call returned
    last_timestamp,                \* caller: the last video and audio timestamps,
                                   \* audio duration and keyframe flag pushed
    free_fn,                       \* history: the last call of a free function,
                                   \* its arguments, what it returned and the
                                   \* indices of its input it read
    muxer_state,                   \* the MuxerState of muxer.rs
    muxer_call                     \* history: the last call of a method of
                                   \* MuxerState, its arguments and what it
                                   \* returned, and the chunks of each track
                                   \* pushed with success so far

\* the fields of the muxer
muxer == <<config, initialized, init_segment, pending_segments,
           video_frame_count, audio_frame_count, video_samples,
           video_sequence_number, video_base_media_decode_time, audio_samples,
           audio_sequence_number, audio_base_media_decode_time>>

vars == <<muxer, emitted, result, last_timestamp, free_fn, muxer_state, muxer_call>>

\* the configurations a muxer is constructed with
video_config(sps, pps) ==
    [video_width |-> 1280, video_height |-> 720, video_timescale |-> 90000,
     fragment_duration_ms |-> 5, sps |-> sps, pps |-> pps,
     audio_sample_rate |-> None, audio_channels |-> None,
     audio_timescale |-> None, audio_specific_config |-> None]

Configs ==
    LET sps == <<103, 66, 192, 30>>
        pps == <<104, 206>>
    IN  { video_config(sps, pps),
          video_config(<<>>, pps),
          video_config(sps, <<>>),
          [video_config(sps, pps) EXCEPT !.audio_sample_rate = Some(48000),
                                         !.audio_channels = Some(2)],
          [video_config(sps, pps) EXCEPT !.audio_sample_rate = Some(48000)],
          [video_config(sps, pps) EXCEPT !.audio_channels = Some(2)] }

\* has_audio looking at the sample rate only
has_audio_rate_only == is_some(config.audio_sample_rate)

has_audio == is_some(config.audio_sample_rate) /\ is_some(config.audio_channels)

\* no free function has been called
NoCall == [args |-> <<>>, ret |-> Ok("none", <<>>), reads |-> {}]

\* MuxideMuxerState::new
Init ==
    /\ config \in Configs
    /\ initialized = FALSE
    /\ init_segment = <<>>
    /\ pending_segments = <<>>
    /\ video_frame_count = 0
    /\ audio_frame_count = 0
    /\ video_samples = <<>>
    /\ video_sequence_number = 1
    /\ video_base_media_decode_time = 0
    /\ audio_samples = <<>>
    /\ audio_sequence_number = 1
    /\ audio_base_media_decode_time = 0
    /\ emitted = <<>>
    /\ result = Ok("new", <<>>)
    /\ last_timestamp = [video |-> 0, audio |-> 0, audio_duration |-> 0,
                         is_keyframe |-> FALSE]
    /\ free_fn = NoCall
    /\ muxer_state = MuxerState_new(MuxerConfig_default)
    /\ muxer_call = NoMuxerStateCall

\* (timestamp * timescale) / 1_000_000 of u64 operands, microseconds to
\* timescale units; the product is divided in two steps of 1000 so that no
\* intermediate value leaves 31 bits for timestamps below 23 s
ticks(timestamp, timescale) ==
    ((timestamp \div 1000) * timescale
     + ((timestamp % 1000) * timescale) \div 1000) \div 1000

\* the total taken as the span from the first dts to the last
calculate_video_trun_total_duration_span(samples) ==
    IF samples = <<>> THEN 0
    ELSE samples[Len(samples)].dts - samples[1].dts

calculate_video_trun_total_duration(samples) ==
    IF samples = <<>> THEN 0
    ELSE sum([i \in 1..Len(samples) |->
                IF i + 1 <= Len(samples)
                THEN as_u32(samples[i + 1].dts - samples[i].dts)
                ELSE IF i > 1 THEN as_u32(samples[i].dts - samples[i - 1].dts)
                ELSE 3000])

\* the total taken as 1024 ticks per AAC frame
calculate_audio_trun_total_duration_nominal(samples) ==
    Len(samples) * 1024

calculate_audio_trun_total_duration(samples) ==
    sum([i \in 1..Len(samples) |-> samples[i].duration])

\* The fields flush_segments reads and writes, as a record
Self ==
    [video_samples |-> video_samples, audio_samples |-> audio_samples,
     video_sequence_number |-> video_sequence_number,
     video_base_media_decode_time |-> video_base_media_decode_time,
     audio_base_media_decode_time |-> audio_base_media_decode_time,
     pending_segments |-> pending_segments, emitted |-> emitted]

\* the audio buffer cleared before the test for buffered video
flush_segments_drop_audio(self) ==
    IF self.video_samples = <<>> THEN [self EXCEPT !.audio_samples = <<>>]
    ELSE LET segment ==
                 build_media_segment_av(self.video_samples, self.audio_samples,
                     self.video_sequence_number,
                     self.video_base_media_decode_time,
                     self.audio_base_media_decode_time, config)
         IN  [video_samples |-> <<>>,
              audio_samples |-> <<>>,
              video_sequence_number |-> self.video_sequence_number + 1,
              video_base_media_decode_time |->
                  self.video_base_media_decode_time
                  + calculate_video_trun_total_duration(self.video_samples),
              audio_base_media_decode_time |->
                  self.audio_base_media_decode_time
                  + calculate_audio_trun_total_duration(self.audio_samples),
              pending_segments |-> Append(self.pending_segments, segment),
              emitted |->
                  Append(self.emitted,
                      [segment |-> segment,
                       video_samples |-> self.video_samples,
                       audio_samples |-> self.audio_samples,
                       moof_placeholder_len |->
                           Len(moof_placeholder(self.video_samples,
                               self.audio_samples, self.video_sequence_number,
                               self.video_base_media_decode_time,
                               self.audio_base_media_decode_time, config))])]

\* the audio samples left in the buffer after they were written to a segment
flush_segments_keep_audio(self) ==
    IF self.video_samples = <<>> THEN self
    ELSE LET segment ==
                 build_media_segment_av(self.video_samples, self.audio_samples,
                     self.video_sequence_number,
                     self.video_base_media_decode_time,
                     self.audio_base_media_decode_time, config)
         IN  [video_samples |-> <<>>,
              audio_samples |-> self.audio_samples,
              video_sequence_number |-> self.video_sequence_number + 1,
              video_base_media_decode_time |->
                  self.video_base_media_decode_time
                  + calculate_video_trun_total_duration(self.video_samples),
              audio_base_media_decode_time |->
                  self.audio_base_media_decode_time
                  + calculate_audio_trun_total_duration(self.audio_samples),
              pending_segments |-> Append(self.pending_segments, segment),
              emitted |->
                  Append(self.emitted,
                      [segment |-> segment,
                       video_samples |-> self.video_samples,
                       audio_samples |-> self.audio_samples,
                       moof_placeholder_len |->
                           Len(moof_placeholder(self.video_samples,
                               self.audio_samples, self.video_sequence_number,
                               self.video_base_media_decode_time,
                               self.audio_base_media_decode_time, config))])]

flush_segments(self) ==
    IF self.video_samples = <<>> THEN self
    ELSE LET segment ==
                 build_media_segment_av(self.video_samples, self.audio_samples,
                     self.video_sequence_number,
                     self.video_base_media_decode_time,
                     self.audio_base_media_decode_time, config)
         IN  [video_samples |-> <<>>,
              audio_samples |-> <<>>,
              video_sequence_number |-> self.video_sequence_number + 1,
              video_base_media_decode_time |->
                  self.video_base_media_decode_time
                  + calculate_video_trun_total_duration(self.video_samples),
              audio_base_media_decode_time |->
                  self.audio_base_media_decode_time
                  + calculate_audio_trun_total_duration(self.audio_samples),
              pending_segments |-> Append(self.pending_segments, segment),
              emitted |->
                  Append(self.emitted,
                      [segment |-> segment,
                       video_samples |-> self.video_samples,
                       audio_samples |-> self.audio_samples,
                       moof_placeholder_len |->
                           Len(moof_placeholder(self.video_samples,
                               self.audio_samples, self.video_sequence_number,
                               self.video_base_media_decode_time,
                               self.audio_base_media_decode_time, config))])]

\* the sample that reached the threshold kept for the next segment
check_and_flush_segments_carry(self) ==
    IF Len(self.video_samples) < 2 THEN self
    ELSE LET n == Len(self.video_samples)
             first_dts == self.video_samples[1].dts
             last_dts == self.video_samples[n].dts
             duration_ticks == last_dts - first_dts
             duration_ms == (duration_ticks * 1000) \div config.video_timescale
         IN  IF duration_ms >= config.fragment_duration_ms
             THEN [flush_segments([self EXCEPT !.video_samples =
                                      SubSeq(self.video_samples, 1, n - 1)])
                      EXCEPT !.video_samples = <<self.video_samples[n]>>]
             ELSE self

\* the threshold taken as strictly more than fragment_duration_ms
check_and_flush_segments_strict(self) ==
    IF Len(self.video_samples) < 2 THEN self
    ELSE LET first_dts == self.video_samples[1].dts
             last_dts == self.video_samples[Len(self.video_samples)].dts
             duration_ticks == last_dts - first_dts
             duration_ms == (duration_ticks * 1000) \div config.video_timescale
         IN  IF duration_ms > config.fragment_duration_ms
             THEN flush_segments(self)
             ELSE self

check_and_flush_segments(self) ==
    IF Len(self.video_samples) < 2 THEN self
    ELSE LET first_dts == self.video_samples[1].dts
             last_dts == self.video_samples[Len(self.video_samples)].dts
             duration_ticks == last_dts - first_dts
             duration_ms == (duration_ticks * 1000) \div config.video_timescale
         IN  IF duration_ms >= config.fragment_duration_ms
             THEN flush_segments(self)
             ELSE self

\* writes the fields of a Self record back
Store(self) ==
    /\ video_samples' = self.video_samples
    /\ audio_samples' = self.audio_samples
    /\ video_sequence_number' = self.video_sequence_number
    /\ video_base_media_decode_time' = self.video_base_media_decode_time
    /\ audio_base_media_decode_time' = self.audio_base_media_decode_time
    /\ pending_segments' = self.pending_segments
    /\ emitted' = self.emitted

\* init without the check for a muxer already initialized
init_again ==
    /\ IF config.sps = <<>> \/ config.pps = <<>>
       THEN /\ result' = Err("init", "SPS and PPS are required for initialization")
            /\ UNCHANGED <<initialized, init_segment>>
       ELSE /\ init_segment' = build_init_segment(config)
            /\ initialized' = TRUE
            /\ result' = Ok("init", <<>>)
    /\ UNCHANGED <<config, pending_segments, video_frame_count,
                   audio_frame_count, video_samples, video_sequence_number,
                   video_base_media_decode_time, audio_samples,
                   audio_sequence_number, audio_base_media_decode_time,
                   emitted, last_timestamp, free_fn, muxer_state, muxer_call>>

\* init refusing only when both the SPS and the PPS are empty
init_sps_and_pps ==
    /\ IF initialized
       THEN /\ result' = Err("init", "Muxer already initialized")
            /\ UNCHANGED <<initialized, init_segment>>
       ELSE IF config.sps = <<>> /\ config.pps = <<>>
       THEN /\ result' = Err("init", "SPS and PPS are required for initialization")
            /\ UNCHANGED <<initialized, init_segment>>
       ELSE /\ init_segment' = build_init_segment(config)
            /\ initialized' = TRUE
            /\ result' = Ok("init", <<>>)
    /\ UNCHANGED <<config, pending_segments, video_frame_count,
                   audio_frame_count, video_samples, video_sequence_number,
                   video_base_media_decode_time, audio_samples,
                   audio_sequence_number, audio_base_media_decode_time,
                   emitted, last_timestamp, free_fn, muxer_state, muxer_call>>

init ==
    /\ IF initialized
       THEN /\ result' = Err("init", "Muxer already initialized")
            /\ UNCHANGED <<initialized, init_segment>>
       ELSE IF config.sps = <<>> \/ config.pps = <<>>
       THEN /\ result' = Err("init", "SPS and PPS are required for initialization")
            /\ UNCHANGED <<initialized, init_segment>>
       ELSE /\ init_segment' = build_init_segment(config)
            /\ initialized' = TRUE
            /\ result' = Ok("init", <<>>)
    /\ UNCHANGED <<config, pending_segments, video_frame_count,
                   audio_frame_count, video_samples, video_sequence_number,
                   video_base_media_decode_time, audio_samples,
                   audio_sequence_number, audio_base_media_decode_time,
                   emitted, last_timestamp, free_fn, muxer_state, muxer_call>>

\* get_init_segment without the check for an initialized muxer
get_init_segment_unchecked ==
    /\ result' = Ok("get_init_segment", <<init_segment>>)
    /\ UNCHANGED <<muxer, emitted, last_timestamp, free_fn, muxer_state, muxer_call>>

get_init_segment ==
    /\ result' = IF ~initialized
                 THEN Err("get_init_segment", "Muxer not initialized")
                 ELSE Ok("get_init_segment", <<init_segment>>)
    /\ UNCHANGED <<muxer, emitted, last_timestamp, free_fn, muxer_state, muxer_call>>

\* MuxideMuxer::initialize of lib.rs: init()? then get_init_segment()
initialize ==
    /\ IF initialized
       THEN /\ result' = Err("initialize", "Muxer already initialized")
            /\ UNCHANGED <<initialized, init_segment>>
       ELSE IF config.sps = <<>> \/ config.pps = <<>>
       THEN /\ result' = Err("initialize",
                             "SPS and PPS are required for initialization")
            /\ UNCHANGED <<initialized, init_segment>>
       ELSE /\ init_segment' = build_init_segment(config)
            /\ initialized' = TRUE
            /\ result' = Ok("initialize", <<build_init_segment(config)>>)
    /\ UNCHANGED <<config, pending_segments, video_frame_count,
                   audio_frame_count, video_samples, video_sequence_number,
                   video_base_media_decode_time, audio_samples,
                   audio_sequence_number, audio_base_media_decode_time,
                   emitted, last_timestamp, free_fn, muxer_state, muxer_call>>

\* the sample put at the head of the buffer
push_video_chunk_front(data, timestamp, is_keyframe) ==
    IF ~initialized
    THEN /\ result' = Err("push_video_chunk", "Muxer not initialized")
         /\ UNCHANGED <<muxer, emitted, last_timestamp, free_fn, muxer_state, muxer_call>>
    ELSE LET pts == ticks(timestamp, config.video_timescale)
             dts == pts
             pushed ==
                 [Self EXCEPT !.video_samples =
                     <<[pts |-> pts, dts |-> dts, data |-> data,
                        is_sync |-> is_keyframe]>> \o video_samples]
         IN  /\ video_frame_count' = video_frame_count + 1
             /\ Store(check_and_flush_segments(pushed))
             /\ result' = Ok("push_video_chunk", <<>>)
             /\ last_timestamp' = [last_timestamp EXCEPT !.video = timestamp,
                                                          !.is_keyframe = is_keyframe]
             /\ UNCHANGED <<free_fn, muxer_state, muxer_call>>
             /\ UNCHANGED <<config, initialized, init_segment,
                            audio_frame_count, audio_sequence_number>>

push_video_chunk(data, timestamp, is_keyframe) ==
    IF ~initialized
    THEN /\ result' = Err("push_video_chunk", "Muxer not initialized")
         /\ UNCHANGED <<muxer, emitted, last_timestamp, free_fn, muxer_state, muxer_call>>
    ELSE LET pts == ticks(timestamp, config.video_timescale)
             dts == pts
             pushed ==
                 [Self EXCEPT !.video_samples =
                     Append(video_samples,
                            [pts |-> pts, dts |-> dts, data |-> data,
                             is_sync |-> is_keyframe])]
         IN  /\ video_frame_count' = video_frame_count + 1
             /\ Store(check_and_flush_segments(pushed))
             /\ result' = Ok("push_video_chunk", <<>>)
             /\ last_timestamp' = [last_timestamp EXCEPT !.video = timestamp,
                                                          !.is_keyframe = is_keyframe]
             /\ UNCHANGED <<free_fn, muxer_state, muxer_call>>
             /\ UNCHANGED <<config, initialized, init_segment,
                            audio_frame_count, audio_sequence_number>>

\* the duration converted by truncation
push_audio_chunk_truncating(data, timestamp, duration) ==
    IF ~initialized
    THEN /\ result' = Err("push_audio_chunk", "Muxer not initialized")
         /\ UNCHANGED <<muxer, emitted, last_timestamp, free_fn, muxer_state, muxer_call>>
    ELSE IF ~has_audio
    THEN /\ result' = Err("push_audio_chunk", "Audio not configured")
         /\ UNCHANGED <<muxer, emitted, last_timestamp, free_fn, muxer_state, muxer_call>>
    ELSE LET audio_timescale ==
                 unwrap_or(config.audio_timescale,
                           unwrap_or(config.audio_sample_rate, 48000))
             pts == ticks(timestamp, audio_timescale)
             duration_ts == as_u32((duration * audio_timescale) \div 1000000)
         IN  /\ audio_samples' =
                    Append(audio_samples,
                           [pts |-> pts, data |-> data, duration |-> duration_ts])
             /\ audio_frame_count' = audio_frame_count + 1
             /\ result' = Ok("push_audio_chunk", <<>>)
             /\ last_timestamp' = [last_timestamp EXCEPT !.audio = timestamp,
                                                          !.audio_duration = duration]
             /\ UNCHANGED <<free_fn, muxer_state, muxer_call>>
             /\ UNCHANGED <<config, initialized, init_segment, pending_segments,
                            video_frame_count, video_samples,
                            video_sequence_number, video_base_media_decode_time,
                            audio_sequence_number, audio_base_media_decode_time,
                            emitted>>

\* push_audio_chunk checking for a flush as push_video_chunk does
push_audio_chunk_flushing(data, timestamp, duration) ==
    IF ~initialized
    THEN /\ result' = Err("push_audio_chunk", "Muxer not initialized")
         /\ UNCHANGED <<muxer, emitted, last_timestamp, free_fn, muxer_state, muxer_call>>
    ELSE IF ~has_audio
    THEN /\ result' = Err("push_audio_chunk", "Audio not configured")
         /\ UNCHANGED <<muxer, emitted, last_timestamp, free_fn, muxer_state, muxer_call>>
    ELSE LET audio_timescale ==
                 unwrap_or(config.audio_timescale,
                           unwrap_or(config.audio_sample_rate, 48000))
             pts == ticks(timestamp, audio_timescale)
             duration_ts ==
                 as_u32((duration * audio_timescale + 500000) \div 1000000)
             pushed ==
                 [Self EXCEPT !.audio_samples =
                     Append(audio_samples,
                            [pts |-> pts, data |-> data, duration |-> duration_ts])]
         IN  /\ Store(IF Len(pushed.audio_samples) >= 2
                      THEN flush_segments(pushed) ELSE pushed)
             /\ audio_frame_count' = audio_frame_count + 1
             /\ result' = Ok("push_audio_chunk", <<>>)
             /\ last_timestamp' = [last_timestamp EXCEPT !.audio = timestamp,
                                                          !.audio_duration = duration]
             /\ UNCHANGED <<free_fn, muxer_state, muxer_call>>
             /\ UNCHANGED <<config, initialized, init_segment,
                            video_frame_count, audio_sequence_number>>

push_audio_chunk(data, timestamp, duration) ==
    IF ~initialized
    THEN /\ result' = Err("push_audio_chunk", "Muxer not initialized")
         /\ UNCHANGED <<muxer, emitted, last_timestamp, free_fn, muxer_state, muxer_call>>
    ELSE IF ~has_audio
    THEN /\ result' = Err("push_audio_chunk", "Audio not configured")
         /\ UNCHANGED <<muxer, emitted, last_timestamp, free_fn, muxer_state, muxer_call>>
    ELSE LET audio_timescale ==
                 unwrap_or(config.audio_timescale,
                           unwrap_or(config.audio_sample_rate, 48000))
             pts == ticks(timestamp, audio_timescale)
             duration_ts ==
                 as_u32((duration * audio_timescale + 500000) \div 1000000)
         IN  /\ audio_samples' =
                    Append(audio_samples,
                           [pts |-> pts, data |-> data, duration |-> duration_ts])
             /\ audio_frame_count' = audio_frame_count + 1
             /\ result' = Ok("push_audio_chunk", <<>>)
             /\ last_timestamp' = [last_timestamp EXCEPT !.audio = timestamp,
                                                          !.audio_duration = duration]
             /\ UNCHANGED <<free_fn, muxer_state, muxer_call>>
             /\ UNCHANGED <<config, initialized, init_segment, pending_segments,
                            video_frame_count, video_samples,
                            video_sequence_number, video_base_media_decode_time,
                            audio_sequence_number, audio_base_media_decode_time,
                            emitted>>

\* force_flush without the check for an initialized muxer
force_flush_unchecked ==
    /\ Store(flush_segments(Self))
    /\ result' = Ok("force_flush", <<>>)
    /\ UNCHANGED <<config, initialized, init_segment, video_frame_count,
                   audio_frame_count, audio_sequence_number, last_timestamp, free_fn, muxer_state, muxer_call>>

\* force_flush flushing only when the fragment duration is reached
force_flush_thresholded ==
    IF ~initialized
    THEN /\ result' = Err("force_flush", "Muxer not initialized")
         /\ UNCHANGED <<muxer, emitted, last_timestamp, free_fn, muxer_state, muxer_call>>
    ELSE /\ Store(check_and_flush_segments(Self))
         /\ result' = Ok("force_flush", <<>>)
         /\ UNCHANGED <<config, initialized, init_segment, video_frame_count,
                        audio_frame_count, audio_sequence_number, last_timestamp, free_fn, muxer_state, muxer_call>>

force_flush ==
    IF ~initialized
    THEN /\ result' = Err("force_flush", "Muxer not initialized")
         /\ UNCHANGED <<muxer, emitted, last_timestamp, free_fn, muxer_state, muxer_call>>
    ELSE /\ Store(flush_segments(Self))
         /\ result' = Ok("force_flush", <<>>)
         /\ UNCHANGED <<config, initialized, init_segment, video_frame_count,
                        audio_frame_count, audio_sequence_number, last_timestamp, free_fn, muxer_state, muxer_call>>

\* get_pending_segments returning a copy and keeping the segments pending
get_pending_segments_clone ==
    /\ result' = Ok("get_pending_segments", pending_segments)
    /\ UNCHANGED <<muxer, emitted, last_timestamp, free_fn, muxer_state, muxer_call>>

\* std::mem::take(&mut self.pending_segments)
get_pending_segments ==
    /\ result' = Ok("get_pending_segments", pending_segments)
    /\ pending_segments' = <<>>
    /\ UNCHANGED <<config, initialized, init_segment, video_frame_count,
                   audio_frame_count, video_samples, video_sequence_number,
                   video_base_media_decode_time, audio_samples,
                   audio_sequence_number, audio_base_media_decode_time,
                   emitted, last_timestamp, free_fn, muxer_state, muxer_call>>

\* MuxideMuxer::get_pending_segments of lib.rs: the segments taken from the
\* state, extended one after the other into a single byte string
MuxideMuxer_get_pending_segments ==
    /\ result' = Ok("MuxideMuxer::get_pending_segments",
                    <<concat(pending_segments)>>)
    /\ pending_segments' = <<>>
    /\ UNCHANGED <<config, initialized, init_segment, video_frame_count,
                   audio_frame_count, video_samples, video_sequence_number,
                   video_base_media_decode_time, audio_samples,
                   audio_sequence_number, audio_base_media_decode_time,
                   emitted, last_timestamp, free_fn, muxer_state, muxer_call>>

has_pending_segments ==
    /\ result' = OkBool("has_pending_segments", pending_segments # <<>>)
    /\ UNCHANGED <<muxer, emitted, last_timestamp, free_fn, muxer_state, muxer_call>>

\* get_complete_file without pending_segments.clear()
get_complete_file_keep_pending ==
    IF ~initialized
    THEN /\ result' = Err("get_complete_file", "Muxer not initialized")
         /\ UNCHANGED <<muxer, emitted, last_timestamp, free_fn, muxer_state, muxer_call>>
    ELSE LET flushed == flush_segments(Self)
         IN  /\ Store(flushed)
             /\ result' = Ok("get_complete_file",
                             <<init_segment \o concat(flushed.pending_segments)>>)
             /\ UNCHANGED <<config, initialized, init_segment,
                            video_frame_count, audio_frame_count,
                            audio_sequence_number, last_timestamp, free_fn, muxer_state, muxer_call>>

\* get_complete_file without the flush of what is buffered
get_complete_file_no_flush ==
    IF ~initialized
    THEN /\ result' = Err("get_complete_file", "Muxer not initialized")
         /\ UNCHANGED <<muxer, emitted, last_timestamp, free_fn, muxer_state, muxer_call>>
    ELSE /\ Store([Self EXCEPT !.pending_segments = <<>>])
         /\ result' = Ok("get_complete_file",
                         <<init_segment \o concat(pending_segments)>>)
         /\ UNCHANGED <<config, initialized, init_segment,
                        video_frame_count, audio_frame_count,
                        audio_sequence_number, last_timestamp, free_fn, muxer_state, muxer_call>>

get_complete_file ==
    IF ~initialized
    THEN /\ result' = Err("get_complete_file", "Muxer not initialized")
         /\ UNCHANGED <<muxer, emitted, last_timestamp, free_fn, muxer_state, muxer_call>>
    ELSE LET flushed == flush_segments(Self)
         IN  /\ Store([flushed EXCEPT !.pending_segments = <<>>])
             /\ result' = Ok("get_complete_file",
                             <<init_segment \o concat(flushed.pending_segments)>>)
             /\ UNCHANGED <<config, initialized, init_segment,
                            video_frame_count, audio_frame_count,
                            audio_sequence_number, last_timestamp, free_fn, muxer_state, muxer_call>>

\* the caller pushes video with non-decreasing timestamps
PushVideo ==
    /\ video_frame_count < MaxVideoFrames
    /\ video_frame_count + audio_frame_count < MaxFrames
    /\ \E frame \in VideoFrames :
           push_video_chunk(frame.data, last_timestamp.video + frame.delta,
                            frame.is_keyframe)

\* the caller pushes audio with non-decreasing timestamps
PushAudio ==
    /\ audio_frame_count < MaxAudioFrames
    /\ video_frame_count + audio_frame_count < MaxFrames
    /\ \E frame \in AudioFrames :
           /\ frame.timestamp >= last_timestamp.audio
           /\ push_audio_chunk(frame.data, frame.timestamp, frame.duration)

Next ==
    \/ init
    \/ initialize
    \/ get_init_segment
    \/ PushVideo
    \/ PushAudio
    \/ force_flush
    \/ get_pending_segments
    \/ MuxideMuxer_get_pending_segments
    \/ has_pending_segments
    \/ get_complete_file

Spec == Init /\ [][Next]_vars

(***************************************************************************)
(* The runs of the tests: test_muxide_muxer_video_only pushes 30 frames    *)
(* 33333 us apart, the first a keyframe; test_muxide_muxer_with_audio      *)
(* pushes three audio frames of 21333 us after each of them.  The caller   *)
(* may flush or read at any point of the run and pushes nothing after a    *)
(* segment has been emitted.                                               *)
(***************************************************************************)
TestFrames == 30
TestAudioPerVideo == 3
TestVideoInterval == 33333
TestAudioDuration == 21333

\* create_test_sps_pps and the two configurations of the tests
TestConfigs ==
    LET sps == <<103, 66, 192, 30, 217, 0, 80, 5, 186, 16>>
        pps == <<104, 206, 60, 128>>
        video_only == [video_config(sps, pps) EXCEPT !.fragment_duration_ms = 2000]
    IN  { video_only,
          [video_only EXCEPT !.audio_sample_rate = Some(48000),
                             !.audio_channels = Some(2),
                             !.audio_timescale = Some(48000)] }

\* frame i of the loop: an 8-byte NAL behind its 4-byte length
TestPushVideo ==
    LET i == video_frame_count
        is_keyframe == i = 0
        nal_type == IF is_keyframe THEN 101 ELSE 65
        avcc_data == u32_to_be_bytes(8) \o <<nal_type, 0, 0, 0, 0, 0, 0, 0>>
    IN  /\ config \in TestConfigs
        /\ i < TestFrames
        /\ emitted = <<>>
        /\ has_audio => audio_frame_count = TestAudioPerVideo * i
        /\ push_video_chunk(avcc_data, i * TestVideoInterval, is_keyframe)

\* audio frame j behind video frame i of the loop
TestPushAudio ==
    LET i == video_frame_count - 1
        j == audio_frame_count - TestAudioPerVideo * i
        audio_data == <<33, 16, 4, 96, 140, 28, 0, 0>>
    IN  /\ config \in TestConfigs
        /\ has_audio
        /\ emitted = <<>>
        /\ i >= 0
        /\ j < TestAudioPerVideo
        /\ push_audio_chunk(audio_data,
                            i * TestVideoInterval + j * TestAudioDuration,
                            TestAudioDuration)

\* the pushes of Spec, for the configurations of Spec
CallerPushVideo == config \in Configs /\ PushVideo

CallerPushAudio == config \in Configs /\ PushAudio

TestInit ==
    /\ config \in Configs \cup TestConfigs
    /\ initialized = FALSE
    /\ init_segment = <<>>
    /\ pending_segments = <<>>
    /\ video_frame_count = 0
    /\ audio_frame_count = 0
    /\ video_samples = <<>>
    /\ video_sequence_number = 1
    /\ video_base_media_decode_time = 0
    /\ audio_samples = <<>>
    /\ audio_sequence_number = 1
    /\ audio_base_media_decode_time = 0
    /\ emitted = <<>>
    /\ result = Ok("new", <<>>)
    /\ last_timestamp = [video |-> 0, audio |-> 0, audio_duration |-> 0,
                         is_keyframe |-> FALSE]
    /\ free_fn = NoCall
    /\ muxer_state = MuxerState_new(MuxerConfig_default)
    /\ muxer_call = NoMuxerStateCall

TestNext ==
    \/ init
    \/ initialize
    \/ get_init_segment
    \/ CallerPushVideo
    \/ CallerPushAudio
    \/ TestPushVideo
    \/ TestPushAudio
    \/ force_flush
    \/ get_pending_segments
    \/ MuxideMuxer_get_pending_segments
    \/ has_pending_segments
    \/ get_complete_file

\* the callers of Spec together with the runs of the tests
TestSpec == TestInit /\ [][TestNext]_vars

(***************************************************************************)
(* annex_b_to_avcc: start codes to 4-byte length prefixes.  Indices are    *)
(* the 0-based indices of the source.                                      *)
(***************************************************************************)
\* every start code taken as three bytes long
start_code_len_short(annex_b, i) ==
    IF /\ i + 4 <= Len(annex_b)
       /\ annex_b[i + 1] = 0 /\ annex_b[i + 2] = 0
       /\ annex_b[i + 3] = 0 /\ annex_b[i + 4] = 1
    THEN 3
    ELSE IF /\ i + 3 <= Len(annex_b)
            /\ annex_b[i + 1] = 0 /\ annex_b[i + 2] = 0 /\ annex_b[i + 3] = 1
    THEN 3
    ELSE 0

\* the length of the start code at index i: 4, 3, or 0 when there is none
start_code_len(annex_b, i) ==
    IF /\ i + 4 <= Len(annex_b)
       /\ annex_b[i + 1] = 0 /\ annex_b[i + 2] = 0
       /\ annex_b[i + 3] = 0 /\ annex_b[i + 4] = 1
    THEN 4
    ELSE IF /\ i + 3 <= Len(annex_b)
            /\ annex_b[i + 1] = 0 /\ annex_b[i + 2] = 0 /\ annex_b[i + 3] = 1
    THEN 3
    ELSE 0

RECURSIVE next_start_code(_, _)
\* for j in nal_start..len: the first j with a start code, or len
next_start_code(annex_b, j) ==
    IF j >= Len(annex_b) THEN Len(annex_b)
    ELSE IF start_code_len(annex_b, j) # 0 THEN j
    ELSE next_start_code(annex_b, j + 1)

\* the zero bytes before the next start code kept in the payload
strip_trailing_zeros_none(annex_b, nal_start, nal_end) == nal_end

RECURSIVE strip_trailing_zeros(_, _, _)
\* while nal_end > nal_start && annex_b[nal_end - 1] == 0x00
strip_trailing_zeros(annex_b, nal_start, nal_end) ==
    IF nal_end > nal_start /\ annex_b[nal_end] = 0
    THEN strip_trailing_zeros(annex_b, nal_start, nal_end - 1)
    ELSE nal_end

\* the length prefix written low byte first
nal_record_le(nal_data) ==
    <<Len(nal_data) % 256, (Len(nal_data) \div 256) % 256, 0, 0>> \o nal_data

\* the 4-byte length prefix and the NAL data
nal_record(nal_data) == u32_to_be_bytes(Len(nal_data)) \o nal_data

\* the value of i after the loop iteration that starts at index i
next_index(annex_b, i) ==
    IF start_code_len(annex_b, i) = 0 THEN i + 1
    ELSE strip_trailing_zeros(annex_b, i + start_code_len(annex_b, i),
             next_start_code(annex_b, i + start_code_len(annex_b, i)))

RECURSIVE annex_b_to_avcc_loop_empty_records(_, _, _)
\* a record written also for a NAL of no bytes
annex_b_to_avcc_loop_empty_records(annex_b, i, result_so_far) ==
    IF i >= Len(annex_b) THEN result_so_far
    ELSE IF start_code_len(annex_b, i) = 0
    THEN annex_b_to_avcc_loop_empty_records(annex_b, i + 1, result_so_far)
    ELSE LET nal_start == i + start_code_len(annex_b, i)
             nal_end == strip_trailing_zeros(annex_b, nal_start,
                            next_start_code(annex_b, nal_start))
         IN  annex_b_to_avcc_loop_empty_records(annex_b, nal_end,
                 result_so_far
                 \o nal_record(SubSeq(annex_b, nal_start + 1, nal_end)))

RECURSIVE annex_b_to_avcc_loop(_, _, _)
\* the while loop from index i on, result being what is written so far
annex_b_to_avcc_loop(annex_b, i, result_so_far) ==
    IF i >= Len(annex_b) THEN result_so_far
    ELSE IF start_code_len(annex_b, i) = 0
    THEN annex_b_to_avcc_loop(annex_b, i + 1, result_so_far)
    ELSE LET nal_start == i + start_code_len(annex_b, i)
             nal_end == strip_trailing_zeros(annex_b, nal_start,
                            next_start_code(annex_b, nal_start))
         IN  annex_b_to_avcc_loop(annex_b, nal_end,
                 IF nal_end > nal_start
                 THEN result_so_far
                      \o nal_record(SubSeq(annex_b, nal_start + 1, nal_end))
                 ELSE result_so_far)

\* an input without a start code passed on as one NAL
annex_b_to_avcc_raw(annex_b) ==
    IF annex_b_to_avcc_loop(annex_b, 0, <<>>) = <<>> /\ annex_b # <<>>
    THEN nal_record(annex_b)
    ELSE annex_b_to_avcc_loop(annex_b, 0, <<>>)

annex_b_to_avcc(annex_b) == annex_b_to_avcc_loop(annex_b, 0, <<>>)

(***************************************************************************)
(* extract_sps_pps_from_avcc.  Every index and slice of the input is       *)
(* recorded in reads; an index at or beyond the length of the input panics *)
(* in the source, which the caller of the model sees as such a read.       *)
(***************************************************************************)
\* avcc[i], the byte read when i is inside the input
index(avcc, i) == IF i < Len(avcc) THEN avcc[i + 1] ELSE 0

\* u16::from_be_bytes([avcc[offset], avcc[offset + 1]])
u16_from_be_bytes(avcc, offset) ==
    index(avcc, offset) * 256 + index(avcc, offset + 1)

\* avcc[from..to].to_vec(), the part of it inside the input
slice(avcc, from, to) ==
    SubSeq(avcc, from + 1, IF to < Len(avcc) THEN to ELSE Len(avcc))

\* the PPS taken from the count byte on
read_pps_from_count(avcc, offset, sps, reads) ==
    IF offset >= Len(avcc)
    THEN [ret |-> Err("extract_sps_pps_from_avcc", "avcC truncated at PPS count"),
          reads |-> reads]
    ELSE IF index(avcc, offset) = 0
    THEN [ret |-> Err("extract_sps_pps_from_avcc", "No PPS found in avcC"),
          reads |-> reads \cup {offset}]
    ELSE IF offset + 1 + 2 > Len(avcc)
    THEN [ret |-> Err("extract_sps_pps_from_avcc", "avcC truncated at PPS length"),
          reads |-> reads \cup {offset}]
    ELSE LET pps_length == u16_from_be_bytes(avcc, offset + 1)
             start == offset
         IN  IF start + 3 + pps_length > Len(avcc)
             THEN [ret |-> Err("extract_sps_pps_from_avcc",
                               "avcC truncated at PPS data"),
                   reads |-> reads \cup {offset, offset + 1, offset + 2}]
             ELSE [ret |-> Ok("extract_sps_pps_from_avcc",
                              <<sps, slice(avcc, start, start + pps_length)>>),
                   reads |-> reads \cup {offset, offset + 1, offset + 2}
                             \cup (start .. start + pps_length - 1)]

\* from the PPS count to the end: the first PPS
read_pps(avcc, offset, sps, reads) ==
    IF offset >= Len(avcc)
    THEN [ret |-> Err("extract_sps_pps_from_avcc", "avcC truncated at PPS count"),
          reads |-> reads]
    ELSE IF index(avcc, offset) = 0
    THEN [ret |-> Err("extract_sps_pps_from_avcc", "No PPS found in avcC"),
          reads |-> reads \cup {offset}]
    ELSE IF offset + 1 + 2 > Len(avcc)
    THEN [ret |-> Err("extract_sps_pps_from_avcc", "avcC truncated at PPS length"),
          reads |-> reads \cup {offset}]
    ELSE LET pps_length == u16_from_be_bytes(avcc, offset + 1)
             start == offset + 3
         IN  IF start + pps_length > Len(avcc)
             THEN [ret |-> Err("extract_sps_pps_from_avcc",
                               "avcC truncated at PPS data"),
                   reads |-> reads \cup {offset, offset + 1, offset + 2}]
             ELSE [ret |-> Ok("extract_sps_pps_from_avcc",
                              <<sps, slice(avcc, start, start + pps_length)>>),
                   reads |-> reads \cup {offset, offset + 1, offset + 2}
                             \cup (start .. start + pps_length - 1)]

RECURSIVE skip_remaining_sps_unchecked(_, _, _, _, _)
\* the loop reading each length without the test for the end of the input
skip_remaining_sps_unchecked(avcc, offset, remaining, sps, reads) ==
    IF remaining = 0 THEN read_pps(avcc, offset, sps, reads)
    ELSE skip_remaining_sps_unchecked(avcc,
             offset + 2 + u16_from_be_bytes(avcc, offset), remaining - 1, sps,
             reads \cup {offset, offset + 1})

RECURSIVE skip_remaining_sps(_, _, _, _, _)
\* for _ in 1..num_sps: skip [u16 length][length bytes], then the PPS
skip_remaining_sps(avcc, offset, remaining, sps, reads) ==
    IF remaining = 0 THEN read_pps(avcc, offset, sps, reads)
    ELSE IF offset + 2 > Len(avcc)
    THEN [ret |-> Err("extract_sps_pps_from_avcc",
                      "avcC truncated at additional SPS"),
          reads |-> reads]
    ELSE skip_remaining_sps(avcc,
             offset + 2 + u16_from_be_bytes(avcc, offset), remaining - 1, sps,
             reads \cup {offset, offset + 1})

\* from numOfSequenceParameterSets at offset 5 on: the first SPS
read_sps(avcc, reads) ==
    LET num_sps == index(avcc, 5) % 32
    IN  IF num_sps = 0
        THEN [ret |-> Err("extract_sps_pps_from_avcc", "No SPS found in avcC"),
              reads |-> reads \cup {5}]
        ELSE IF 6 + 2 > Len(avcc)
        THEN [ret |-> Err("extract_sps_pps_from_avcc",
                          "avcC truncated at SPS length"),
              reads |-> reads \cup {5}]
        ELSE LET sps_length == u16_from_be_bytes(avcc, 6)
             IN  IF 8 + sps_length > Len(avcc)
                 THEN [ret |-> Err("extract_sps_pps_from_avcc",
                                   "avcC truncated at SPS data"),
                       reads |-> reads \cup {5, 6, 7}]
                 ELSE skip_remaining_sps(avcc, 8 + sps_length, num_sps - 1,
                          slice(avcc, 8, 8 + sps_length),
                          reads \cup {5, 6, 7} \cup (8 .. 8 + sps_length - 1))

\* the parse without the test of configurationVersion
extract_sps_pps_from_avcc_any_version(avcc) ==
    IF Len(avcc) < 7
    THEN [ret |-> Err("extract_sps_pps_from_avcc", "avcC too short"), reads |-> {}]
    ELSE read_sps(avcc, {0})

extract_sps_pps_from_avcc(avcc) ==
    IF Len(avcc) < 7
    THEN [ret |-> Err("extract_sps_pps_from_avcc", "avcC too short"), reads |-> {}]
    ELSE IF index(avcc, 0) # 1
    THEN [ret |-> Err("extract_sps_pps_from_avcc",
                      "Invalid avcC version: " \o ToString(index(avcc, 0))),
          reads |-> {0}]
    ELSE read_sps(avcc, {0})

(***************************************************************************)
(* The free functions called on their own: annex_b_to_avcc,                *)
(* extract_sps_pps_from_avcc and build_audio_specific_config, each on      *)
(* every input of a bounded set.                                           *)
(***************************************************************************)
MaxAnnexBLen == 9
MaxNalLen == 2
MaxNals == 2
MaxParameterSetLen == 3
MaxAvccTail == 6
MaxChannels == 8

\* the bytes inputs are made of: the two bytes of a start code and another
InputBytes == {0, 1, 103}

\* the byte strings of at most n bytes
ByteStrings(n) == UNION {[1..k -> InputBytes] : k \in 0..n}

\* the input of test_annex_b_to_avcc
TestAnnexB == <<0, 0, 0, 1, 103, 66, 192, 30, 0, 0, 0, 1, 104, 206, 60, 128>>

AnnexBInputs == ByteStrings(MaxAnnexBLen) \cup {TestAnnexB}

\* lists of NAL units, and the AVCC byte string of a list
\* NAL units that hold the start-code pattern 00 00 01
EmulatingNalLists ==
    {<< <<0, 0, 1>> >>, << <<103, 0, 0, 1, 103>> >>, << <<103>>, <<0, 0, 0, 1>> >>}

NalLists ==
    UNION {[1..k -> ByteStrings(MaxNalLen)] : k \in 0..MaxNals}
    \cup EmulatingNalLists

avcc_of(nals) ==
    concat([k \in 1..Len(nals) |-> u32_to_be_bytes(Len(nals[k])) \o nals[k]])

RECURSIVE avcc_to_annex_b(_)
\* each 4-byte length prefix replaced by the start code 00 00 00 01
avcc_to_annex_b(x) ==
    IF Len(x) < 4 THEN <<>>
    ELSE LET nal_len == ((x[1] * 256 + x[2]) * 256 + x[3]) * 256 + x[4]
         IN  <<0, 0, 0, 1>> \o SubSeq(x, 5, 4 + nal_len)
             \o avcc_to_annex_b(SubSeq(x, 5 + nal_len, Len(x)))

\* the avcC records tried: a header of six bytes with either version and zero,
\* one or two SPS declared, then any tail of counts and lengths 0, 1 and 2;
\* the truncated headers; the record that ends inside the SPS length
AvccInputs ==
    LET headers == {<<version, 66, 192, 30, 255, count>> :
                       version \in {0, 1}, count \in {224, 225, 226}}
        tails == UNION {[1..k -> {0, 1, 2}] : k \in 0..MaxAvccTail}
    IN  {h \o tail : h \in headers, tail \in tails}
        \cup {SubSeq(<<1, 66, 192, 30, 255, 225>>, 1, n) : n \in 0..5}
        \cup {<<1, 66, 192, 30, 255, 225, 0>>}

\* the first length that config.sps.len() as u16 does not hold
LongParameterSetLen == 65536

\* the parameter sets build_avcc is given: short ones, and one too long for
\* the 16-bit length field
ParameterSets ==
    (ByteStrings(MaxParameterSetLen) \ {<<>>})
    \cup {[k \in 1..LongParameterSetLen |-> 103]}

\* the payload of the avcC box build_avcc builds
avcc_payload(sps, pps) ==
    LET box == build_avcc(video_config(sps, pps))
    IN  SubSeq(box, 9, Len(box))

SampleRates ==
    {96000, 88200, 64000, 48000, 44100, 32000, 24000, 22050, 16000, 12000,
     11025, 8000, 7350, 0, 22000, 48001}

FnInit ==
    /\ Init
    /\ config.sps = <<>>

\* one function is called in a behaviour, and the muxer is left alone
NoMuxer ==
    /\ free_fn = NoCall
    /\ UNCHANGED <<muxer, emitted, result, last_timestamp, muxer_state,
                   muxer_call>>

CallAnnexBToAvcc ==
    /\ NoMuxer
    /\ \E annex_b \in AnnexBInputs :
           free_fn' = [args |-> <<annex_b>>,
                       ret |-> Ok("annex_b_to_avcc", <<annex_b_to_avcc(annex_b)>>),
                       reads |-> {}]

\* annex_b_to_avcc called on avcc_to_annex_b of an AVCC byte string
CallRoundTrip ==
    /\ NoMuxer
    /\ \E nals \in NalLists :
           free_fn' = [args |-> <<nals>>,
                       ret |-> Ok("annex_b_to_avcc(avcc_to_annex_b)",
                                  <<annex_b_to_avcc(avcc_to_annex_b(avcc_of(nals)))>>),
                       reads |-> {}]

CallExtract ==
    /\ NoMuxer
    /\ \E avcc \in AvccInputs :
           LET r == extract_sps_pps_from_avcc(avcc)
           IN  free_fn' = [args |-> <<avcc>>, ret |-> r.ret, reads |-> r.reads]

\* extract_sps_pps_from_avcc called on what build_avcc wrote
CallExtractBuilt ==
    /\ NoMuxer
    /\ \E sps \in ParameterSets, pps \in ParameterSets :
           LET r == extract_sps_pps_from_avcc(avcc_payload(sps, pps))
           IN  free_fn' = [args |-> <<sps, pps, avcc_payload(sps, pps)>>,
                           ret |-> [r.ret EXCEPT
                                       !.op = "extract_sps_pps_from_avcc(build_avcc)"],
                           reads |-> r.reads]

CallBuildAudioSpecificConfig ==
    /\ NoMuxer
    /\ \E sample_rate \in SampleRates, channels \in 0..MaxChannels :
           free_fn' = [args |-> <<sample_rate, channels>>,
                       ret |-> Ok("build_audio_specific_config",
                                  <<build_audio_specific_config(sample_rate,
                                                                channels)>>),
                       reads |-> {}]

\* the data build_descriptor is given: every length up to the bound, and the
\* lengths at which the third length byte comes into use
MaxDescriptorData == 130

DescriptorData ==
    {[k \in 1..n |-> k % 256] : n \in (0..MaxDescriptorData) \cup {16383, 16384}}

\* the lengths the length field is written for: those of the data, and those
\* at which the second byte comes into use and the four bytes are full
DescriptorLengths ==
    {Len(data) : data \in DescriptorData}
    \cup {2097151, 2097152, 268435455}

CallBuildDescriptor ==
    /\ NoMuxer
    /\ \E tag \in {3, 4, 5, 6}, data \in DescriptorData :
           free_fn' = [args |-> <<tag, data>>,
                       ret |-> Ok("build_descriptor",
                                  <<build_descriptor(tag, data)>>),
                       reads |-> {}]

\* the length field of build_descriptor written for a length alone
CallDescriptorLength ==
    /\ NoMuxer
    /\ \E len \in DescriptorLengths :
           free_fn' = [args |-> <<len>>,
                       ret |-> Ok("descriptor_length", <<descriptor_length(len)>>),
                       reads |-> {}]

FnNext ==
    \/ CallBuildDescriptor
    \/ CallDescriptorLength
    \/ CallAnnexBToAvcc
    \/ CallRoundTrip
    \/ CallExtract
    \/ CallExtractBuilt
    \/ CallBuildAudioSpecificConfig

FnSpec == FnInit /\ [][FnNext]_vars

\* the pattern 00 00 01 somewhere in a NAL unit
has_start_code(nal) ==
    \E i \in 1..(Len(nal) - 2) : nal[i] = 0 /\ nal[i + 1] = 0 /\ nal[i + 2] = 1

round_trip_called == free_fn.ret.op = "annex_b_to_avcc(avcc_to_annex_b)"

\* C21 as stated: annex_b_to_avcc(avcc_to_annex_b(x)) = x for every AVCC byte
\* string x whose NAL units hold no start-code pattern
C21_Original ==
    (/\ round_trip_called
     /\ \A k \in 1..Len(free_fn.args[1]) : ~has_start_code(free_fn.args[1][k]))
    => free_fn.ret.val[1] = avcc_of(free_fn.args[1])

\* a NAL unit annex_b_to_avcc gives back unchanged: not empty, not ending in
\* a zero byte, holding no start-code pattern
canonical_nal(nal) ==
    /\ nal # <<>>
    /\ nal[Len(nal)] # 0
    /\ ~has_start_code(nal)

\* C21: annex_b_to_avcc(avcc_to_annex_b(x)) = x for every AVCC byte string x
\* whose NAL units are not empty, do not end in a zero byte and hold no
\* start-code pattern
C21_RoundTrip ==
    (/\ round_trip_called
     /\ \A k \in 1..Len(free_fn.args[1]) : canonical_nal(free_fn.args[1][k]))
    => free_fn.ret.val[1] = avcc_of(free_fn.args[1])

\* two canonical NAL units, the second starting with a zero byte, went
\* through the round trip
C21_Witness ==
    /\ round_trip_called
    /\ free_fn.args[1] = << <<103, 1>>, <<0, 1>> >>
    /\ free_fn.ret.val[1] = <<0, 0, 0, 2, 103, 1, 0, 0, 0, 2, 0, 1>>

annex_b_to_avcc_called == free_fn.ret.op = "annex_b_to_avcc"

\* 00 00 00 01 and 00 00 01 at the 0-based index p of b
is_code4(b, p) ==
    /\ p >= 0
    /\ p + 4 <= Len(b)
    /\ SubSeq(b, p + 1, p + 4) = <<0, 0, 0, 1>>

is_code3(b, p) ==
    /\ p + 3 <= Len(b)
    /\ SubSeq(b, p + 1, p + 3) = <<0, 0, 1>>

\* where the start codes of b begin: a 3-byte match that is the tail of a
\* 4-byte match is that 4-byte start code
start_codes(b) ==
    {p \in 0..(Len(b) - 1) :
        is_code4(b, p) \/ (is_code3(b, p) /\ ~is_code4(b, p - 1))}

\* the payload after the start code at p: up to the next start code or the
\* end of the input, less the zero bytes it ends in
payload_of(b, p) ==
    LET from == p + (IF is_code4(b, p) THEN 4 ELSE 3)
        later == {q \in start_codes(b) : q > p}
        to == IF later = {} THEN Len(b)
              ELSE CHOOSE q \in later : \A q2 \in later : q <= q2
        last == CHOOSE k \in from..to :
                    /\ k = from \/ b[k] # 0
                    /\ \A m \in (k + 1)..to : b[m] = 0
    IN  SubSeq(b, from + 1, last)

RECURSIVE records_of(_, _)
\* the records of the payloads after the start codes at the indices in
\* codes, in input order; an empty payload has no record
records_of(b, codes) ==
    IF codes = {} THEN <<>>
    ELSE LET p == CHOOSE q \in codes : \A q2 \in codes : q <= q2
             payload == payload_of(b, p)
         IN  (IF payload = <<>> THEN <<>>
              ELSE u32_to_be_bytes(Len(payload)) \o payload)
             \o records_of(b, codes \ {p})

zeros(n) == [k \in 1..n |-> 0]

\* b is a start code, a NAL unit of n bytes, z zero bytes, and a start code
padded_before_start_code(b, code, n, z) ==
    /\ Len(code) + n + z + 3 <= Len(b)
    /\ SubSeq(b, 1, Len(code)) = code
    /\ canonical_nal(SubSeq(b, Len(code) + 1, Len(code) + n))
    /\ SubSeq(b, Len(code) + n + 1, Len(code) + n + z) = zeros(z)
    /\ \/ is_code4(b, Len(code) + n + z)
       \/ is_code3(b, Len(code) + n + z)

\* C23: the zero bytes between a NAL payload and the next start code are
\* not in the emitted payload and not counted in its length prefix
C23_TrailingZerosStripped ==
    annex_b_to_avcc_called =>
        \A code \in {<<0, 0, 1>>, <<0, 0, 0, 1>>} :
            \A n \in 1..Len(free_fn.args[1]), z \in 1..Len(free_fn.args[1]) :
                padded_before_start_code(free_fn.args[1], code, n, z) =>
                    SubSeq(free_fn.ret.val[1], 1, 4 + n)
                        = u32_to_be_bytes(n)
                          \o SubSeq(free_fn.args[1], Len(code) + 1, Len(code) + n)

\* a NAL of one byte with a zero byte before the start code 00 00 00 01
C23_Witness ==
    /\ annex_b_to_avcc_called
    /\ free_fn.args[1] = <<0, 0, 1, 103, 0, 0, 0, 0, 1>>
    /\ padded_before_start_code(free_fn.args[1], <<0, 0, 1>>, 1, 1)
    /\ free_fn.ret.val[1] = <<0, 0, 0, 1, 103>>

\* C24: an input with neither 00 00 01 nor 00 00 00 01 in it, the empty
\* input included, gives the empty byte string
C24_NoStartCode ==
    (/\ annex_b_to_avcc_called
     /\ \A p \in 0..Len(free_fn.args[1]) : ~is_code3(free_fn.args[1], p))
    => free_fn.ret.val[1] = <<>>

\* bytes without a start code were converted to nothing
C24_Witness ==
    /\ annex_b_to_avcc_called
    /\ free_fn.args[1] = <<0, 0, 0, 0, 103, 1>>
    /\ free_fn.ret.val[1] = <<>>

extract_built_called == free_fn.ret.op = "extract_sps_pps_from_avcc(build_avcc)"

\* the avcC payload laid out as version 1, three profile bytes, ff, e1,
\* u16 SPS length, SPS, 01, u16 PPS length, PPS
avcc_layout(payload, sps, pps) ==
    /\ Len(payload) = 11 + Len(sps) + Len(pps)
    /\ payload[1] = 1
    /\ SubSeq(payload, 5, 6) = <<255, 225>>
    /\ SubSeq(payload, 7, 8) = <<Len(sps) \div 256, Len(sps) % 256>>
    /\ SubSeq(payload, 9, 8 + Len(sps)) = sps
    /\ payload[9 + Len(sps)] = 1
    /\ SubSeq(payload, 10 + Len(sps), 11 + Len(sps))
           = <<Len(pps) \div 256, Len(pps) % 256>>
    /\ SubSeq(payload, 12 + Len(sps), Len(payload)) = pps

\* C25 as stated: extract_sps_pps_from_avcc gives back (sps, pps) from the
\* payload build_avcc writes, for every non-empty SPS and PPS
C25_Original ==
    extract_built_called =>
        /\ free_fn.ret.ok
        /\ free_fn.ret.val = <<free_fn.args[1], free_fn.args[2]>>

\* C25: for every non-empty SPS and PPS of at most 65535 bytes each, the
\* payload build_avcc writes has the avcC layout and
\* extract_sps_pps_from_avcc gives back (sps, pps) from it
C25_ExtractBuilt ==
    (/\ extract_built_called
     /\ Len(free_fn.args[1]) < LongParameterSetLen
     /\ Len(free_fn.args[2]) < LongParameterSetLen)
    => /\ avcc_layout(free_fn.args[3], free_fn.args[1], free_fn.args[2])
       /\ free_fn.ret.ok
       /\ free_fn.ret.val = <<free_fn.args[1], free_fn.args[2]>>

\* an SPS of three bytes and a PPS of two came back from the payload
C25_Witness ==
    /\ extract_built_called
    /\ free_fn.args[1] = <<103, 1, 0>>
    /\ free_fn.args[2] = <<103, 0>>
    /\ free_fn.args[3] = <<1, 1, 0, 30, 255, 225, 0, 3, 103, 1, 0, 1, 0, 2, 103, 0>>
    /\ free_fn.ret.val = << <<103, 1, 0>>, <<103, 0>> >>

extract_called == free_fn.ret.op = "extract_sps_pps_from_avcc"

\* where the PPS count byte of an avcC record is, 0-based, when the record
\* reaches that far: after the declared SPS entries
RECURSIVE pps_count_offset(_, _, _)
pps_count_offset(avcc, offset, entries) ==
    IF entries = 0 \/ offset + 2 > Len(avcc) THEN offset
    ELSE pps_count_offset(avcc,
             offset + 2 + avcc[offset + 1] * 256 + avcc[offset + 2], entries - 1)

\* C26: extract_sps_pps_from_avcc returns an error when the input is shorter
\* than 7 bytes, when byte 0 is not 1, when the low 5 bits of byte 5 are 0,
\* or when the PPS count byte is 0; 01 42 C0 1E FF E1 00 is rejected with
\* the error of truncation at the SPS length
C26_Rejects ==
    extract_called =>
        LET avcc == free_fn.args[1]
            count == IF Len(avcc) >= 6
                     THEN pps_count_offset(avcc, 6, avcc[6] % 32)
                     ELSE 0
        IN  /\ Len(avcc) < 7 => ~free_fn.ret.ok
            /\ Len(avcc) >= 1 /\ avcc[1] # 1 => ~free_fn.ret.ok
            /\ Len(avcc) >= 6 /\ avcc[6] % 32 = 0 => ~free_fn.ret.ok
            /\ Len(avcc) >= 6 /\ count < Len(avcc) /\ avcc[count + 1] = 0
               => ~free_fn.ret.ok
            /\ avcc = <<1, 66, 192, 30, 255, 225, 0>>
               => free_fn.ret.err = "avcC truncated at SPS length"

\* a record of version 0 that is otherwise whole was rejected
C26_Witness ==
    /\ extract_called
    /\ free_fn.args[1] = <<0, 66, 192, 30, 255, 225, 0, 1, 2, 1, 0, 1>>
    /\ ~free_fn.ret.ok
    /\ free_fn.ret.err = "Invalid avcC version: 0"

\* C27: extract_sps_pps_from_avcc reads no index at or beyond the length of
\* its input, and a length field or a declared SPS or PPS that runs past
\* the end of the input gives an error
C27_ReadsInBounds ==
    extract_called =>
        /\ \A i \in free_fn.reads : i < Len(free_fn.args[1])
        /\ free_fn.ret.ok =>
               LET avcc == free_fn.args[1]
                   count == pps_count_offset(avcc, 6, avcc[6] % 32)
               IN  /\ 8 + avcc[7] * 256 + avcc[8] <= Len(avcc)
                   /\ count + 3 <= Len(avcc)
                   /\ count + 3 + avcc[count + 2] * 256 + avcc[count + 3]
                          <= Len(avcc)

\* a second SPS declared two bytes long with one byte left was rejected
C27_Witness ==
    /\ extract_called
    /\ free_fn.args[1] = <<1, 66, 192, 30, 255, 226, 0, 1, 2, 0, 2, 1>>
    /\ free_fn.ret.err = "avcC truncated at PPS count"
    /\ free_fn.reads = {0, 5, 6, 7, 8, 9, 10}

audio_specific_config_called == free_fn.ret.op = "build_audio_specific_config"

\* the samplingFrequencyIndex table of ISO 14496-3, index 0 first
IsoSamplingFrequencies ==
    <<96000, 88200, 64000, 48000, 44100, 32000, 24000, 22050, 16000, 12000,
      11025, 8000, 7350>>

\* C28: build_audio_specific_config(rate, channels) returns 2 bytes that
\* decode, as 5 bits, 4 bits, 4 bits and 3 bits, to audioObjectType 2, the
\* ISO samplingFrequencyIndex of rate (3 for a rate not in the table),
\* channelConfiguration min(channels, 7) and zero; (48000, 2) gives 11 90
\* and (44100, 1) gives 12 08
C28_AudioSpecificConfig ==
    audio_specific_config_called =>
        LET rate == free_fn.args[1]
            channels == free_fn.args[2]
            asc == free_fn.ret.val[1]
            bits == asc[1] * 256 + asc[2]
            frequency_index == (bits \div 128) % 16
        IN  /\ Len(asc) = 2
            /\ asc[1] \in 0..255 /\ asc[2] \in 0..255
            /\ bits \div 2048 = 2
            /\ \/ /\ frequency_index \in 0..12
                  /\ IsoSamplingFrequencies[frequency_index + 1] = rate
               \/ /\ \A k \in 1..13 : IsoSamplingFrequencies[k] # rate
                  /\ frequency_index = 3
            /\ (bits \div 8) % 16 = (IF channels < 7 THEN channels ELSE 7)
            /\ bits % 8 = 0
            /\ rate = 48000 /\ channels = 2 => asc = <<17, 144>>
            /\ rate = 44100 /\ channels = 1 => asc = <<18, 8>>

\* 8 channels at 44100 Hz were written as channel configuration 7
C28_Witness ==
    /\ audio_specific_config_called
    /\ free_fn.args = <<44100, 8>>
    /\ free_fn.ret.val[1] = <<18, 56>>

(***************************************************************************)
(* A caller that may push a frame at the timestamp of the frame before it. *)
(***************************************************************************)
\* the gaps between video timestamps: none, within a fragment, a fragment
TimestampGaps == {0, 1111, 5000}

TimestampInit ==
    /\ Init
    /\ config.sps # <<>>
    /\ config.pps # <<>>
    /\ has_audio

TimestampPushVideo ==
    /\ video_frame_count < MaxVideoFrames
    /\ \E gap \in TimestampGaps, is_keyframe \in BOOLEAN :
           push_video_chunk(IF is_keyframe THEN <<0, 0, 0, 1, 101>>
                            ELSE <<0, 0, 0, 2, 65, 154>>,
                            last_timestamp.video + gap, is_keyframe)

TimestampNext ==
    \/ init
    \/ TimestampPushVideo
    \/ force_flush
    \/ get_pending_segments
    \/ get_complete_file

TimestampSpec == TimestampInit /\ [][TimestampNext]_vars

(***************************************************************************)
(* Reading boxes back from bytes.  A reader of ISO BMFF that knows nothing *)
(* of how the segment was built: offsets are 0-based byte offsets.         *)
(***************************************************************************)
read_u32(b, off) ==
    b[off + 1] * 16777216 + b[off + 2] * 65536 + b[off + 3] * 256 + b[off + 4]

read_u64(b, off) ==
    (read_u32(b, off) * 65536) * 65536 + read_u32(b, off + 4)

RECURSIVE boxes(_, _, _)
\* the sibling boxes lying in b[from .. to), each as [off, size, typ]; a box
\* whose size field does not fit ends the list with typ <<>>
boxes(b, from, to) ==
    IF from >= to THEN <<>>
    ELSE IF from + 8 > to THEN <<[off |-> from, size |-> 0, typ |-> <<>>]>>
    ELSE LET size == read_u32(b, from)
         IN  IF size < 8 \/ from + size > to
             THEN <<[off |-> from, size |-> size, typ |-> <<>>]>>
             ELSE <<[off |-> from, size |-> size,
                     typ |-> SubSeq(b, from + 5, from + 8)]>>
                  \o boxes(b, from + size, to)

children(b, box) == boxes(b, box.off + 8, box.off + box.size)

of_type(list, typ) == SelectSeq(list, LAMBDA bx : bx.typ = typ)

\* the moof of a segment and its parts
moof_of(seg) == boxes(seg, 0, Len(seg))[1]
mfhd_sequence_number(seg) ==
    read_u32(seg, of_type(children(seg, moof_of(seg)), T.mfhd)[1].off + 12)

\* the trafs of a segment whose tfhd names track_id
trafs_of_track(seg, track_id) ==
    SelectSeq(of_type(children(seg, moof_of(seg)), T.traf),
              LAMBDA tr : read_u32(seg, of_type(children(seg, tr), T.tfhd)[1].off + 12)
                          = track_id)

has_traf(seg, track_id) == trafs_of_track(seg, track_id) # <<>>

tfdt_of(seg, track_id) ==
    read_u64(seg,
        of_type(children(seg, trafs_of_track(seg, track_id)[1]), T.tfdt)[1].off + 12)

trun_of(seg, track_id) ==
    of_type(children(seg, trafs_of_track(seg, track_id)[1]), T.trun)[1]

trun_sample_count(seg, track_id) == read_u32(seg, trun_of(seg, track_id).off + 12)
trun_data_offset(seg, track_id) == read_u32(seg, trun_of(seg, track_id).off + 16)

\* the u32 fields found at byte `field` of each entry of a trun
trun_entries(seg, tr, field) ==
    LET f == (read_u32(seg, tr.off + 8) \div 256) % 16
        stride == 4 * ((f % 2) + ((f \div 2) % 2) + ((f \div 4) % 2) + ((f \div 8) % 2))
        count == read_u32(seg, tr.off + 12)
    IN  [i \in 1..count |-> read_u32(seg, tr.off + 20 + field + (i - 1) * stride)]

\* the duration and the size are the first two fields of an entry
trun_durations(seg, track_id) == trun_entries(seg, trun_of(seg, track_id), 0)

trun_sizes(seg, track_id) == trun_entries(seg, trun_of(seg, track_id), 4)

\* the k-th segment ever emitted
Seg(k) == emitted[k].segment

\* sum of the audio trun durations of the first n emitted segments
RECURSIVE audio_durations_upto(_)
audio_durations_upto(n) ==
    IF n = 0 THEN 0
    ELSE audio_durations_upto(n - 1)
         + (IF has_traf(Seg(n), 2) THEN sum(trun_durations(Seg(n), 2)) ELSE 0)

(***************************************************************************)
(* Claims                                                                  *)
(***************************************************************************)

\* C1: the video tfdt of the first emitted segment is 0, and the video tfdt of
\* every later segment is the video tfdt of the segment before it plus the sum
\* of the sample durations written in that segment's video trun, exactly.
C1_VideoTfdtContinuity ==
    \A k \in 1..Len(emitted) :
        tfdt_of(Seg(k), 1) =
            IF k = 1 THEN 0
            ELSE tfdt_of(Seg(k - 1), 1) + sum(trun_durations(Seg(k - 1), 1))

\* a segment of two or more video samples (last duration duplicated) is
\* followed by another segment
C1_Witness ==
    /\ Len(emitted) >= 2
    /\ trun_sample_count(Seg(1), 1) >= 2
    /\ tfdt_of(Seg(2), 1) > 0

\* C2: the audio tfdt written in a segment is the sum of the durations written
\* in the audio truns of all earlier segments, and the state's audio base decode
\* time is the sum over all emitted segments: only an emitting flush moves it,
\* by what that segment's audio trun serialized.
C2_AudioTfdtIsSumOfEarlier ==
    /\ audio_base_media_decode_time = audio_durations_upto(Len(emitted))
    /\ \A k \in 1..Len(emitted) :
           has_traf(Seg(k), 2) => tfdt_of(Seg(k), 2) = audio_durations_upto(k - 1)

\* a second segment with audio follows a segment with audio
C2_Witness ==
    \E k \in 2..Len(emitted) :
        /\ has_traf(Seg(k), 2)
        /\ has_traf(Seg(k - 1), 2)
        /\ tfdt_of(Seg(k), 2) > 0

\* C3: in every emitted segment the video trun's data_offset is the moof length
\* plus 8 and the video data starts there; the audio trun's data_offset, when an
\* audio trun is present, is that plus the video data bytes and the audio data
\* starts there; the placeholder moof is as long as the final moof.
C3_DataOffsets ==
    \A k \in 1..Len(emitted) :
        LET seg == Seg(k)
            video_data == concat([i \in 1..Len(emitted[k].video_samples) |->
                                     emitted[k].video_samples[i].data])
            audio_data == concat([i \in 1..Len(emitted[k].audio_samples) |->
                                     emitted[k].audio_samples[i].data])
            voff == trun_data_offset(seg, 1)
        IN  /\ voff = moof_of(seg).size + 8
            /\ SubSeq(seg, voff + 1, voff + Len(video_data)) = video_data
            /\ emitted[k].moof_placeholder_len = moof_of(seg).size
            /\ (emitted[k].audio_samples # <<>>) = has_traf(seg, 2)
            /\ has_traf(seg, 2) =>
                   LET aoff == trun_data_offset(seg, 2)
                   IN  /\ aoff = voff + Len(video_data)
                       /\ SubSeq(seg, aoff + 1, aoff + Len(audio_data)) = audio_data

\* a segment with two video samples and an audio trun
C3_Witness ==
    \E k \in 1..Len(emitted) :
        /\ has_traf(Seg(k), 2)
        /\ trun_sample_count(Seg(k), 1) >= 2

\* C4: every segment appended to pending_segments is exactly one moof followed
\* by one mdat, their sizes summing to the segment length, the mdat size being
\* 8 plus the video data bytes plus the audio data bytes.
C4_MoofThenMdat ==
    /\ \A k \in 1..Len(emitted) :
           LET seg == Seg(k)
               top == boxes(seg, 0, Len(seg))
               video_bytes == sum([i \in 1..Len(emitted[k].video_samples) |->
                                      Len(emitted[k].video_samples[i].data)])
               audio_bytes == sum([i \in 1..Len(emitted[k].audio_samples) |->
                                      Len(emitted[k].audio_samples[i].data)])
           IN  /\ Len(top) = 2
               /\ top[1].typ = T.moof
               /\ top[2].typ = T.mdat
               /\ top[1].size + top[2].size = Len(seg)
               /\ top[2].size = 8 + video_bytes + audio_bytes
    /\ \E n \in 0..Len(emitted) :
           pending_segments = [i \in 1..(Len(emitted) - n) |-> Seg(n + i)]

\* a pending segment carrying video and audio data
C4_Witness ==
    /\ pending_segments # <<>>
    /\ \E k \in 1..Len(emitted) :
           /\ emitted[k].audio_samples # <<>>
           /\ Len(emitted[k].video_samples) >= 2

\* C5: the mfhd sequence number of the k-th emitted segment is k, and a step
\* that emits no segment leaves video_sequence_number as it was.
C5_SequenceNumbers ==
    /\ [](\A k \in 1..Len(emitted) : mfhd_sequence_number(Seg(k)) = k)
    /\ [][Len(emitted') = Len(emitted)
          => video_sequence_number' = video_sequence_number]_vars
    /\ [][Len(emitted') # Len(emitted)
          => /\ Len(emitted') = Len(emitted) + 1
             /\ video_sequence_number' = video_sequence_number + 1]_vars

\* three segments have been emitted
C5_Witness ==
    /\ Len(emitted) >= 3
    /\ mfhd_sequence_number(Seg(3)) = 3

\* the calls that push or flush
PushOrFlush == {"push_video_chunk", "push_audio_chunk", "force_flush"}

\* C6: until init() has succeeded, push_video_chunk, push_audio_chunk and
\* force_flush return an error and leave every field of the muxer, and the
\* segments emitted, as they were.
C6_PushFlushBeforeInit ==
    [][(~initialized /\ result'.op \in PushOrFlush)
       => /\ ~result'.ok
          /\ result'.err = "Muxer not initialized"
          /\ UNCHANGED <<muxer, emitted>>]_vars

\* an audio push was refused on a muxer with audio configured but never
\* initialized
C6_Witness ==
    /\ ~initialized
    /\ result.op = "push_audio_chunk"
    /\ ~result.ok
    /\ has_audio

\* C7 as stated: before init() has succeeded every get operation
\* (get_init_segment, get_pending_segments, get_complete_file) reports a
\* NotInitialized error and changes no state.
C7_Original ==
    [][(~initialized
        /\ result'.op \in {"get_init_segment", "get_pending_segments",
                           "get_complete_file"})
       => /\ ~result'.ok
          /\ result'.err = "Muxer not initialized"
          /\ UNCHANGED <<muxer, emitted>>]_vars

\* C7 amended: before init() has succeeded get_init_segment and
\* get_complete_file report "Muxer not initialized", get_pending_segments
\* returns an empty list without an error, and none of the three changes state.
C7_GetBeforeInit ==
    [][(~initialized
        /\ result'.op \in {"get_init_segment", "get_pending_segments",
                           "get_complete_file"})
       => /\ UNCHANGED <<muxer, emitted>>
          /\ IF result'.op = "get_pending_segments"
             THEN result'.ok /\ result'.val = <<>>
             ELSE ~result'.ok /\ result'.err = "Muxer not initialized"]_vars

\* get_pending_segments has answered on a muxer never initialized
C7_Witness ==
    /\ ~initialized
    /\ result.op = "get_pending_segments"

\* C8: initialized never goes back to false and becomes true only by a
\* successful init(); an init() on an initialized muxer, directly or through
\* the wrapper initialize(), returns an error, no init segment, and leaves every
\* field of the muxer as it was.
C8_InitAtMostOnce ==
    [][/\ initialized => initialized'
       /\ (~initialized /\ initialized')
          => (result'.op \in {"init", "initialize"} /\ result'.ok)
       /\ (initialized /\ result'.op \in {"init", "initialize"})
          => /\ ~result'.ok
             /\ result'.err = "Muxer already initialized"
             /\ result'.val = <<>>
             /\ UNCHANGED <<muxer, emitted>>]_vars

\* a second init was refused on a muxer that holds samples and segments
C8_Witness ==
    /\ initialized
    /\ result.op = "initialize"
    /\ ~result.ok
    /\ video_samples # <<>>
    /\ pending_segments # <<>>

\* C9: with an empty SPS or an empty PPS the muxer is never initialized and its
\* init segment stays empty: init() returns an error and every push and flush
\* returns "Muxer not initialized".
C9_InitWithoutCodecParameters ==
    (config.sps = <<>> \/ config.pps = <<>>)
    => /\ ~initialized
       /\ init_segment = <<>>
       /\ result.op \in {"init", "initialize"}
          => (~result.ok
              /\ result.err = "SPS and PPS are required for initialization")
       /\ result.op \in PushOrFlush
          => (~result.ok /\ result.err = "Muxer not initialized")

\* init() was refused for an empty PPS
C9_Witness ==
    /\ config.pps = <<>>
    /\ config.sps # <<>>
    /\ result.op = "init"
    /\ ~result.ok

\* the configuration lacks the audio sample rate or the audio channel count
audio_not_configured ==
    config.audio_sample_rate = {} \/ config.audio_channels = {}

\* C10: on an initialized muxer without audio configured push_audio_chunk
\* returns "Audio not configured" and changes no field; no audio sample is ever
\* buffered or counted and no emitted segment has an audio traf or audio bytes.
C10_AudioNotConfigured ==
    /\ [](audio_not_configured
          => /\ audio_samples = <<>>
             /\ audio_frame_count = 0
             /\ \A k \in 1..Len(emitted) :
                    /\ ~has_traf(Seg(k), 2)
                    /\ Len(Seg(k)) = moof_of(Seg(k)).size + 8
                                     + sum(trun_sizes(Seg(k), 1)))
    /\ [][(initialized /\ audio_not_configured /\ result'.op = "push_audio_chunk")
          => /\ ~result'.ok
             /\ result'.err = "Audio not configured"
             /\ UNCHANGED <<muxer, emitted>>]_vars

\* an audio push was refused while video was buffered, on a muxer that has a
\* sample rate but no channel count
C10_Witness ==
    /\ initialized
    /\ audio_not_configured
    /\ config.audio_sample_rate # {}
    /\ result.op = "push_audio_chunk"
    /\ ~result.ok
    /\ video_samples # <<>>

\* the audio timescale of a configuration with audio
audio_timescale_of(cfg) ==
    IF cfg.audio_timescale # {} THEN CHOOSE t \in cfg.audio_timescale : TRUE
    ELSE CHOOSE r \in cfg.audio_sample_rate : TRUE

\* the last element of a non-empty sequence
Last(seq) == seq[Len(seq)]

\* C11: a successful push_audio_chunk stores as duration the pushed duration
\* times the audio timescale, plus 500000, divided by 1000000 (to nearest, not
\* truncated): 21333 us at 48000 is stored as 1024; and when the 90 frames of
\* the test run have been flushed with video every audio trun entry is 1024
\* and the audio base decode time for the next segment is 92160.
C11_AudioDurationRounding ==
    /\ [][(result'.op = "push_audio_chunk" /\ result'.ok)
          => LET us == last_timestamp'.audio_duration
                 timescale == audio_timescale_of(config)
             IN  /\ Last(audio_samples').duration
                        = (us * timescale + 500000) \div 1000000
                 /\ (us = 21333 /\ timescale = 48000)
                        => Last(audio_samples').duration = 1024]_vars
    /\ []((config \in TestConfigs /\ audio_frame_count = 90 /\ emitted # <<>>)
          => /\ audio_base_media_decode_time = 92160
             /\ trun_durations(Seg(1), 2) = [i \in 1..90 |-> 1024])

\* the 30 video and 90 audio frames of the test run have been flushed
C11_Witness ==
    /\ config \in TestConfigs
    /\ video_frame_count = 30
    /\ audio_frame_count = 90
    /\ Len(emitted) = 1
    /\ audio_samples = <<>>

\* C12: a successful push_video_chunk emits a segment exactly when, with the
\* sample appended, two or more video samples are buffered and (last dts -
\* first dts) * 1000 div video_timescale is at least fragment_duration_ms; the
\* segment then holds every buffered video sample, the pushed one included, and
\* every buffered audio sample, and both buffers are left empty; otherwise the
\* sample is only appended.  No push of the 30 frames of the test run, 33333 us
\* apart with a 2000 ms fragment, emits a segment.
C12_AutoFlush ==
    /\ [][(result'.op = "push_video_chunk" /\ result'.ok)
          => LET n == Len(video_samples) + 1
                 last_dts == ticks(last_timestamp'.video, config.video_timescale)
                 first_dts == IF video_samples = <<>> THEN last_dts
                              ELSE video_samples[1].dts
                 due == /\ n >= 2
                        /\ ((last_dts - first_dts) * 1000) \div config.video_timescale
                               >= config.fragment_duration_ms
             IN  IF due
                 THEN /\ Len(emitted') = Len(emitted) + 1
                      /\ LET e == Last(emitted')
                         IN  /\ Len(e.video_samples) = n
                             /\ SubSeq(e.video_samples, 1, n - 1) = video_samples
                             /\ e.video_samples[n].dts = last_dts
                             /\ e.audio_samples = audio_samples
                             /\ trun_sample_count(e.segment, 1) = n
                             /\ has_traf(e.segment, 2) = (audio_samples # <<>>)
                             /\ audio_samples # <<>>
                                    => trun_sample_count(e.segment, 2)
                                           = Len(audio_samples)
                             /\ pending_segments'
                                    = Append(pending_segments, e.segment)
                      /\ video_samples' = <<>>
                      /\ audio_samples' = <<>>
                 ELSE /\ emitted' = emitted
                      /\ pending_segments' = pending_segments
                      /\ Len(video_samples') = n
                      /\ SubSeq(video_samples', 1, n - 1) = video_samples
                      /\ Last(video_samples').dts = last_dts
                      /\ audio_samples' = audio_samples]_vars
    /\ [][(config \in TestConfigs /\ result'.op = "push_video_chunk")
          => /\ emitted' = <<>>
             /\ Len(video_samples') = video_frame_count']_vars

\* a push has emitted a segment of two video samples and an audio sample
C12_Witness ==
    /\ result.op = "push_video_chunk"
    /\ video_samples = <<>>
    /\ emitted # <<>>
    /\ Len(Last(emitted).video_samples) >= 2
    /\ Last(emitted).audio_samples # <<>>

\* C13: force_flush on an initialized muxer holding a video sample emits
\* exactly one segment, built from every buffered video and audio sample
\* whatever time they span, appends it at the end of pending_segments and
\* leaves both buffers empty.
C13_ForceFlush ==
    [][(initialized /\ result'.op = "force_flush" /\ video_samples # <<>>)
       => /\ result'.ok
          /\ Len(emitted') = Len(emitted) + 1
          /\ SubSeq(emitted', 1, Len(emitted)) = emitted
          /\ LET e == Last(emitted')
             IN  /\ e.video_samples = video_samples
                 /\ e.audio_samples = audio_samples
                 /\ trun_sample_count(e.segment, 1) = Len(video_samples)
                 /\ has_traf(e.segment, 2) = (audio_samples # <<>>)
                 /\ audio_samples # <<>>
                        => trun_sample_count(e.segment, 2) = Len(audio_samples)
                 /\ pending_segments' = Append(pending_segments, e.segment)
          /\ video_samples' = <<>>
          /\ audio_samples' = <<>>]_vars

\* force_flush has emitted, behind an earlier segment still pending, two video
\* samples spanning less than the fragment duration, with audio
C13_Witness ==
    /\ result.op = "force_flush"
    /\ video_samples = <<>>
    /\ Len(pending_segments) >= 2
    /\ Last(pending_segments) = Last(emitted).segment
    /\ Len(Last(emitted).video_samples) = 2
    /\ (Last(emitted).video_samples[2].dts - Last(emitted).video_samples[1].dts)
           * 1000 < config.fragment_duration_ms * config.video_timescale
    /\ Last(emitted).audio_samples # <<>>

\* C14: a successful push_audio_chunk appends one sample to the audio buffer
\* and adds one to audio_frame_count; it emits no segment and leaves
\* pending_segments, the video buffer, video_sequence_number and both base
\* decode times as they were.
C14_AudioPushOnlyBuffers ==
    [][(result'.op = "push_audio_chunk" /\ result'.ok)
       => /\ Len(audio_samples') = Len(audio_samples) + 1
          /\ SubSeq(audio_samples', 1, Len(audio_samples)) = audio_samples
          /\ audio_frame_count' = audio_frame_count + 1
          /\ UNCHANGED <<config, initialized, init_segment, pending_segments,
                         video_frame_count, video_samples, video_sequence_number,
                         video_base_media_decode_time, audio_sequence_number,
                         audio_base_media_decode_time, emitted>>]_vars

\* an audio push has been accepted while video is buffered and the audio
\* buffered spans more than the fragment duration
C14_Witness ==
    /\ result.op = "push_audio_chunk"
    /\ result.ok
    /\ video_samples # <<>>
    /\ Len(audio_samples) >= 2
    /\ sum([i \in 1..Len(audio_samples) |-> audio_samples[i].duration]) * 1000
           > config.fragment_duration_ms * audio_timescale_of(config)

\* C15: get_complete_file on an initialized muxer first flushes the buffered
\* video, with the buffered audio, into a last segment, returns init_segment
\* followed by the pending segments in the order they were emitted, and leaves
\* pending_segments empty; when a video sample has been pushed and every
\* segment emitted is still pending, the result is longer than the init
\* segment.
C15_CompleteFile ==
    [][(initialized /\ result'.op = "get_complete_file")
       => /\ result'.ok
          /\ IF video_samples = <<>>
             THEN /\ emitted' = emitted
                  /\ audio_samples' = audio_samples
             ELSE /\ Len(emitted') = Len(emitted) + 1
                  /\ SubSeq(emitted', 1, Len(emitted)) = emitted
                  /\ Last(emitted').video_samples = video_samples
                  /\ Last(emitted').audio_samples = audio_samples
                  /\ audio_samples' = <<>>
          /\ video_samples' = <<>>
          /\ LET all == IF video_samples = <<>> THEN pending_segments
                        ELSE Append(pending_segments, Last(emitted').segment)
             IN  result'.val = <<init_segment \o concat(all)>>
          /\ pending_segments' = <<>>
          /\ (video_frame_count >= 1
              /\ pending_segments = [k \in 1..Len(emitted) |-> Seg(k)])
                 => Len(result'.val[1]) > Len(init_segment)]_vars

\* get_complete_file has returned the init segment and two segments
C15_Witness ==
    /\ result.op = "get_complete_file"
    /\ result.ok
    /\ Len(emitted) = 2
    /\ pending_segments = <<>>
    /\ result.val = <<init_segment \o Seg(1) \o Seg(2)>>

\* the two calls that take the pending segments
TakePending == {"get_pending_segments", "MuxideMuxer::get_pending_segments"}

mdat_payload(seg) ==
    LET mdat == of_type(boxes(seg, 0, Len(seg)), T.mdat)[1]
    IN  SubSeq(seg, mdat.off + 9, mdat.off + mdat.size)

\* C17: the mdat payload of every emitted segment is the data of the buffered
\* video samples in push order followed by the data of the buffered audio
\* samples in push order, and entry i of each track's trun carries the byte
\* length of sample i of that track.
C17_MdatOrderAndSizes ==
    \A k \in 1..Len(emitted) :
        LET seg == Seg(k)
            video == emitted[k].video_samples
            audio == emitted[k].audio_samples
        IN  /\ mdat_payload(seg)
                   = concat([i \in 1..Len(video) |-> video[i].data])
                     \o concat([i \in 1..Len(audio) |-> audio[i].data])
            /\ trun_sizes(seg, 1) = [i \in 1..Len(video) |-> Len(video[i].data)]
            /\ has_traf(seg, 2)
                   => trun_sizes(seg, 2) = [i \in 1..Len(audio) |-> Len(audio[i].data)]
            /\ ~has_traf(seg, 2) => audio = <<>>

\* a segment of two video samples and two audio samples, of different lengths
C17_Witness ==
    \E k \in 1..Len(emitted) :
        /\ Len(emitted[k].video_samples) = 2
        /\ Len(emitted[k].audio_samples) = 2
        /\ trun_sizes(Seg(k), 1)[1] # trun_sizes(Seg(k), 1)[2]
        /\ trun_sizes(Seg(k), 2)[1] # trun_sizes(Seg(k), 2)[2]

\* C18: in a video trun of n samples the duration of sample i is the dts of
\* sample i+1 less the dts of sample i for every sample but the last; the last
\* repeats the interval before it when n >= 2 and is 3000 when n = 1.  The
\* first frame of the test run, a keyframe at timestamp 0, flushed alone, gives
\* one sample of duration 3000.
C18_VideoTrunDurations ==
    \A k \in 1..Len(emitted) :
        LET v == emitted[k].video_samples
            n == Len(v)
            d == trun_durations(Seg(k), 1)
        IN  /\ n >= 1
            /\ Len(d) = n
            /\ \A i \in 1..n :
                   d[i] = IF i < n THEN v[i + 1].dts - v[i].dts
                          ELSE IF n >= 2 THEN v[n].dts - v[n - 1].dts
                          ELSE 3000
            /\ (config \in TestConfigs /\ video_frame_count = 1)
                   => /\ v[1].dts = 0
                      /\ v[1].is_sync
                      /\ d = <<3000>>

\* the single keyframe of the test run has been flushed
C18_Witness ==
    /\ config \in TestConfigs
    /\ video_frame_count = 1
    /\ Len(emitted) = 1
    /\ trun_durations(Seg(1), 1) = <<3000>>

\* the sample flags and the composition time offsets of the entries of a
\* video trun
trun_sample_flags(seg) == trun_entries(seg, trun_of(seg, 1), 8)

trun_composition_time_offsets(seg) == trun_entries(seg, trun_of(seg, 1), 12)

\* C19: every video sample is stored with the keyframe flag it was pushed with
\* and with pts equal to dts; its trun entry carries the sample flags
\* 0x02000000 when pushed as a keyframe and 0x01010000 otherwise, and a
\* composition time offset of 0.
C19_SampleFlags ==
    /\ [][(result'.op = "push_video_chunk" /\ result'.ok)
          => LET sample == IF video_samples' # <<>> THEN Last(video_samples')
                           ELSE Last(Last(emitted').video_samples)
             IN  /\ sample.is_sync = last_timestamp'.is_keyframe
                 /\ sample.pts = sample.dts]_vars
    /\ [](\A k \in 1..Len(emitted) :
             LET v == emitted[k].video_samples
             IN  /\ trun_sample_flags(Seg(k))
                        = [i \in 1..Len(v) |->
                              IF v[i].is_sync THEN 33554432 ELSE 16842752]
                 /\ trun_composition_time_offsets(Seg(k))
                        = [i \in 1..Len(v) |-> 0])

\* the 30 frames of the test run in one segment: a keyframe and 29 others
C19_Witness ==
    /\ config \in TestConfigs
    /\ Len(emitted) = 1
    /\ trun_sample_count(Seg(1), 1) = 30
    /\ trun_sample_flags(Seg(1))[1] = 33554432
    /\ trun_sample_flags(Seg(1))[30] = 16842752

\* the subtractions (minuend, subtrahend) of dts that check_and_flush_segments,
\* calculate_video_trun_total_duration and build_video_trun make on a buffer
dts_subtractions(samples) ==
    LET n == Len(samples)
    IN  (IF n >= 2 THEN {<<samples[n].dts, samples[1].dts>>,
                         <<samples[n].dts, samples[n - 1].dts>>} ELSE {})
        \cup {<<samples[i + 1].dts, samples[i].dts>> : i \in 1..(n - 1)}

\* C20: with video timestamps that never decrease from push to push (equal
\* ones allowed) no dts subtraction of check_and_flush_segments,
\* calculate_video_trun_total_duration or build_video_trun, on the buffer or
\* on any buffer flushed, has a negative result, and every duration written
\* in a video trun is such a difference.
C20_NoNegativeDts ==
    /\ \A p \in dts_subtractions(video_samples) : p[1] >= p[2]
    /\ \A k \in 1..Len(emitted) :
           LET v == emitted[k].video_samples
           IN  /\ \A p \in dts_subtractions(v) : p[1] >= p[2]
               /\ \A i \in 1..(Len(v) - 1) :
                      trun_durations(Seg(k), 1)[i] = v[i + 1].dts - v[i].dts

\* a segment of three samples, the first two pushed at the same timestamp
C20_Witness ==
    \E k \in 1..Len(emitted) :
        /\ Len(emitted[k].video_samples) = 3
        /\ trun_durations(Seg(k), 1)[1] = 0
        /\ trun_durations(Seg(k), 1)[2] > 0

\* the first child of a box with the given type
child(b, box, typ) == of_type(children(b, box), typ)[1]

types_of(list) == [k \in 1..Len(list) |-> list[k].typ]

\* the track_ID of the tkhd of a trak, and the type of its sample entry
track_id_of(b, trak) == read_u32(b, child(b, trak, T.tkhd).off + 20)

sample_entry_of(b, trak) ==
    LET stsd == child(b, child(b, child(b, child(b, trak, T.mdia), T.minf),
                                T.stbl), T.stsd)
    IN  SubSeq(b, stsd.off + 21, stsd.off + 24)

\* C29: the init segment is ftyp then moov; moov holds mvhd, mvex, the
\* video trak and then the audio trak; the audio trak (mp4a), the second
\* trex and next_track_ID 3 are there exactly when both audio_sample_rate
\* and audio_channels are configured, which is when push_audio_chunk is
\* accepted; otherwise the moov is video-only with next_track_ID 2
C29_InitSegment ==
    initialized =>
        LET b == init_segment
            top == boxes(b, 0, Len(b))
            in_moov == children(b, top[2])
            trex == children(b, in_moov[2])
            both == config.audio_sample_rate # None /\ config.audio_channels # None
        IN  /\ types_of(top) = <<T.ftyp, T.moov>>
            /\ types_of(in_moov)
                  = <<T.mvhd, T.mvex, T.trak>> \o (IF both THEN <<T.trak>> ELSE <<>>)
            /\ types_of(trex) = <<T.trex>> \o (IF both THEN <<T.trex>> ELSE <<>>)
            /\ [k \in 1..Len(trex) |-> read_u32(b, trex[k].off + 12)]
                  = (IF both THEN <<1, 2>> ELSE <<1>>)
            /\ read_u32(b, in_moov[1].off + 104) = (IF both THEN 3 ELSE 2)
            /\ track_id_of(b, in_moov[3]) = 1
            /\ sample_entry_of(b, in_moov[3]) = T.avc1
            /\ both => /\ track_id_of(b, in_moov[4]) = 2
                       /\ sample_entry_of(b, in_moov[4]) = T.mp4a
            /\ result.op = "push_audio_chunk" => (result.ok <=> both)

\* an audio frame was accepted on a muxer whose init segment has two traks
C29_Witness ==
    /\ initialized
    /\ Len(children(init_segment, boxes(init_segment, 0, Len(init_segment))[2])) = 4
    /\ result.op = "push_audio_chunk"
    /\ result.ok

\* the bytes of fixed fields between the header of a box and its child
\* boxes, or -1 for a box that holds no boxes
fields_before_children(typ) ==
    CASE typ \in {T.moov, T.mvex, T.trak, T.mdia, T.minf, T.dinf, T.stbl,
                  T.moof, T.traf} -> 0
      [] typ \in {T.stsd, T.dref} -> 8
      [] typ = T.avc1 -> 78
      [] typ = T.mp4a -> 28
      [] OTHER -> 0 - 1

RECURSIVE sized_boxes(_, _, _)
\* b[from .. to) is a row of boxes, each with a size field of 8 plus the
\* length of its payload, that ends at to, and so is the row of child boxes
\* inside each of them
sized_boxes(b, from, to) ==
    LET row == boxes(b, from, to)
    IN  /\ \A k \in 1..Len(row) : row[k].typ # <<>>
        /\ sum([k \in 1..Len(row) |-> row[k].size]) = to - from
        /\ \A k \in 1..Len(row) :
               fields_before_children(row[k].typ) >= 0
               => sized_boxes(b,
                         row[k].off + 8 + fields_before_children(row[k].typ),
                         row[k].off + row[k].size)

\* how many boxes b[from .. to) holds, at every level
RECURSIVE count_boxes(_, _, _)
count_boxes(b, from, to) ==
    LET row == boxes(b, from, to)
    IN  Len(row)
        + sum([k \in 1..Len(row) |->
                  IF fields_before_children(row[k].typ) >= 0
                  THEN count_boxes(b,
                           row[k].off + 8 + fields_before_children(row[k].typ),
                           row[k].off + row[k].size)
                  ELSE 0])

\* C30: every box of the init segment and of every media segment, at every
\* level, has a 32-bit size field of 8 plus the length of its payload: the
\* top-level boxes end where the segment ends, and the child boxes of a
\* container, after its fixed fields, end where the container ends
C30_BoxSizes ==
    /\ initialized => sized_boxes(init_segment, 0, Len(init_segment))
    /\ \A k \in 1..Len(emitted) :
           sized_boxes(emitted[k].segment, 0, Len(emitted[k].segment))

\* an init segment of 42 boxes with both traks and a media segment of 11
\* boxes with both trafs
C30_Witness ==
    /\ initialized
    /\ count_boxes(init_segment, 0, Len(init_segment)) = 42
    /\ emitted # <<>>
    /\ count_boxes(emitted[1].segment, 0, Len(emitted[1].segment)) = 11

\* the samples of a track in the truns of the first n emitted segments
RECURSIVE emitted_sample_count(_, _)
emitted_sample_count(n, track_id) ==
    IF n = 0 THEN 0
    ELSE emitted_sample_count(n - 1, track_id)
         + (IF has_traf(Seg(n), track_id)
            THEN trun_sample_count(Seg(n), track_id) ELSE 0)

\* C31: after init, video_frame_count is the number of buffered video
\* samples plus the video trun sample counts of all emitted segments, and
\* audio_frame_count the same for audio: every accepted sample is in exactly
\* one place
C31_SampleConservation ==
    initialized =>
        /\ video_frame_count
              = Len(video_samples) + emitted_sample_count(Len(emitted), 1)
        /\ audio_frame_count
              = Len(audio_samples) + emitted_sample_count(Len(emitted), 2)

\* two video samples and an audio sample are in an emitted segment, and one
\* more video sample is buffered
C31_Witness ==
    /\ initialized
    /\ video_frame_count = 3
    /\ audio_frame_count = 1
    /\ Len(video_samples) = 1
    /\ audio_samples = <<>>
    /\ emitted_sample_count(Len(emitted), 1) = 2
    /\ emitted_sample_count(Len(emitted), 2) = 1

\* a call of force_flush or get_complete_file on an initialized muxer whose
\* video buffer is empty
FlushOfEmptyVideo ==
    /\ initialized
    /\ video_samples = <<>>
    /\ result'.op \in {"force_flush", "get_complete_file"}

\* C32 as stated: force_flush and get_complete_file with an empty video
\* buffer leave the sequence number, the decode times, pending_segments and
\* the buffered audio samples as they were
C32_Original ==
    [][FlushOfEmptyVideo
       => UNCHANGED <<emitted, video_sequence_number,
                      video_base_media_decode_time,
                      audio_base_media_decode_time, pending_segments,
                      audio_samples>>]_vars

\* C32: force_flush and get_complete_file with an empty video buffer emit no
\* segment, also with audio buffered: the sequence number, the decode times
\* and the buffered audio samples stay as they were; force_flush leaves
\* pending_segments as it was and get_complete_file returns the init segment
\* and the segments already pending and drains them.  The audio samples are in
\* the next segment emitted, which holds a video sample.
C32_EmptyVideoFlush ==
    /\ [][FlushOfEmptyVideo
          => /\ result'.ok
             /\ UNCHANGED <<emitted, video_sequence_number,
                            video_base_media_decode_time,
                            audio_base_media_decode_time, audio_samples>>
             /\ result'.op = "force_flush"
                => pending_segments' = pending_segments
             /\ result'.op = "get_complete_file"
                => /\ pending_segments' = <<>>
                   /\ result'.val = <<init_segment \o concat(pending_segments)>>]_vars
    /\ [][Len(emitted') # Len(emitted)
          => LET e == Last(emitted')
                 n == Len(audio_samples)
             IN  /\ trun_sample_count(e.segment, 1) >= 1
                 /\ Len(e.audio_samples) >= n
                 /\ SubSeq(e.audio_samples, 1, n) = audio_samples
                 /\ n > 0
                    => /\ has_traf(e.segment, 2)
                       /\ trun_sample_count(e.segment, 2) = Len(e.audio_samples)
                       /\ SubSeq(trun_sizes(e.segment, 2), 1, n)
                             = [k \in 1..n |-> Len(audio_samples[k].data)]]_vars

\* force_flush returned on a muxer that holds audio samples, no video sample
\* and no segment
C32_Witness ==
    /\ result.op = "force_flush"
    /\ result.ok
    /\ video_samples = <<>>
    /\ audio_samples # <<>>
    /\ emitted = <<>>
    /\ video_sequence_number = 1

\* (last_dts - first_dts) * 1000 div video_timescale of a buffer of samples
span_ms(samples) ==
    ((samples[Len(samples)].dts - samples[1].dts) * 1000) \div config.video_timescale

\* C33: after a push_video_chunk has returned, the video buffer holds fewer
\* than two samples or spans less than fragment_duration_ms; a segment emitted
\* by a push holds two or more video samples, the pushed one being the last
\* of them, and none is left in the buffer
C33_BufferBelowFragment ==
    /\ [](result.op = "push_video_chunk" /\ result.ok
          => \/ Len(video_samples) < 2
             \/ span_ms(video_samples) < config.fragment_duration_ms)
    /\ [][result'.op = "push_video_chunk" /\ Len(emitted') # Len(emitted)
          => LET e == Last(emitted')
                 n == Len(e.video_samples)
             IN  /\ n >= 2
                 /\ n = Len(video_samples) + 1
                 /\ trun_sample_count(e.segment, 1) = n
                 /\ span_ms(e.video_samples) >= config.fragment_duration_ms
                 /\ e.video_samples[n].dts
                       = ticks(last_timestamp'.video, config.video_timescale)
                 /\ video_samples' = <<>>]_vars

\* a push has left three samples spanning 2 ms of a 5 ms fragment in the
\* buffer
C33_Witness ==
    /\ result.op = "push_video_chunk"
    /\ result.ok
    /\ Len(video_samples) = 3
    /\ span_ms(video_samples) = 2
    /\ config.fragment_duration_ms = 5
    /\ emitted = <<>>

\* the track_ID in the tfhd of each traf of a segment, and the sample_count
\* of each trun, in the order of the trafs
traf_track_ids(seg) ==
    LET trafs == of_type(children(seg, moof_of(seg)), T.traf)
    IN  [k \in 1..Len(trafs) |-> read_u32(seg, child(seg, trafs[k], T.tfhd).off + 12)]

traf_sample_counts(seg) ==
    LET trafs == of_type(children(seg, moof_of(seg)), T.traf)
    IN  [k \in 1..Len(trafs) |-> read_u32(seg, child(seg, trafs[k], T.trun).off + 12)]

\* C34: every emitted segment has a video traf (track 1) of one sample or
\* more, then an audio traf (track 2) exactly when an audio sample was
\* buffered at the flush; no trun has a sample_count of 0
C34_Trafs ==
    \A k \in 1..Len(emitted) :
        LET seg == emitted[k].segment
            audio == emitted[k].audio_samples # <<>>
        IN  /\ types_of(children(seg, moof_of(seg)))
                  = <<T.mfhd, T.traf>> \o (IF audio THEN <<T.traf>> ELSE <<>>)
            /\ traf_track_ids(seg) = (IF audio THEN <<1, 2>> ELSE <<1>>)
            /\ \A t \in 1..Len(traf_sample_counts(seg)) :
                   /\ traf_sample_counts(seg)[t] >= 1
                   /\ Len(types_of(of_type(children(seg,
                          of_type(children(seg, moof_of(seg)), T.traf)[t]),
                          T.trun))) = 1
            /\ traf_sample_counts(seg)[1] = Len(emitted[k].video_samples)
            /\ audio => traf_sample_counts(seg)[2] = Len(emitted[k].audio_samples)

\* on a muxer with audio configured, a segment with both trafs and then a
\* segment flushed with no audio buffered, which has the video traf only
C34_Witness ==
    /\ Len(emitted) = 2
    /\ has_audio
    /\ traf_track_ids(emitted[1].segment) = <<1, 2>>
    /\ traf_sample_counts(emitted[1].segment) = <<2, 1>>
    /\ traf_track_ids(emitted[2].segment) = <<1>>

\* the bytes of the emitted segments from the from-th to the to-th
segments_emitted(history, from, to) ==
    [k \in 1..(to - from + 1) |-> history[from + k - 1].segment]

\* C35: every emitted segment is handed to the caller once and in emission
\* order.  The pending segments are the last emitted ones; a step hands over
\* exactly the pending segments (get_complete_file after those it emits
\* itself and behind the init segment) and leaves none pending, and no other
\* step removes one; a get_complete_file right after another returns the
\* init segment alone.
C35_ReturnedOnce ==
    /\ [](/\ Len(pending_segments) <= Len(emitted)
          /\ pending_segments
                = segments_emitted(emitted, Len(emitted) - Len(pending_segments) + 1,
                                   Len(emitted)))
    /\ [][LET new == segments_emitted(emitted', Len(emitted) + 1, Len(emitted'))
          IN  /\ SubSeq(emitted', 1, Len(emitted)) = emitted
              /\ CASE result'.op = "get_pending_segments"
                        -> /\ result'.val = pending_segments
                           /\ new = <<>>
                           /\ pending_segments' = <<>>
                   [] result'.op = "MuxideMuxer::get_pending_segments"
                        -> /\ result'.val = <<concat(pending_segments)>>
                           /\ new = <<>>
                           /\ pending_segments' = <<>>
                   [] result'.op = "get_complete_file" /\ initialized
                        -> /\ result'.val
                                 = <<init_segment \o concat(pending_segments \o new)>>
                           /\ pending_segments' = <<>>
                   [] OTHER -> pending_segments' = pending_segments \o new]_vars
    /\ [][(result.op = "get_complete_file" /\ result.ok
           /\ result'.op = "get_complete_file")
          => result'.val = <<init_segment>>]_vars

\* get_complete_file returned the init segment and the second segment alone,
\* the first one having been handed over before
C35_Witness ==
    /\ result.op = "get_complete_file"
    /\ result.ok
    /\ Len(emitted) = 2
    /\ result.val = <<init_segment \o emitted[2].segment>>
    /\ pending_segments = <<>>

RECURSIVE is_avcc_records(_)
\* x is a row of records [4-byte big-endian length L][L bytes] with L >= 1
is_avcc_records(x) ==
    \/ x = <<>>
    \/ /\ Len(x) >= 4
       /\ read_u32(x, 0) >= 1
       /\ 4 + read_u32(x, 0) <= Len(x)
       /\ is_avcc_records(SubSeq(x, 5 + read_u32(x, 0), Len(x)))

\* C36: annex_b_to_avcc terminates: from every index of every input a loop
\* iteration moves the scan index forward and not beyond the end of the
\* input, also when a start code is followed by zero bytes only; and its
\* output is a row of records [4-byte big-endian length L][L bytes], L >= 1
C36_TerminatesWithRecords ==
    annex_b_to_avcc_called =>
        /\ \A i \in 0..(Len(free_fn.args[1]) - 1) :
               /\ next_index(free_fn.args[1], i) > i
               /\ next_index(free_fn.args[1], i) <= Len(free_fn.args[1])
        /\ is_avcc_records(free_fn.ret.val[1])

\* a start code followed by zero bytes only, then a start code and a NAL: the
\* iteration at index 0 ends at index 3 and one record is written
C36_Witness ==
    /\ annex_b_to_avcc_called
    /\ free_fn.args[1] = <<0, 0, 1, 0, 0, 0, 0, 1, 103>>
    /\ next_index(free_fn.args[1], 0) = 3
    /\ free_fn.ret.val[1] = <<0, 0, 0, 1, 103>>

\* the length a descriptor length field stands for, read as ISO 14496-1
\* reads it: 7 bits from each byte, the high bit set on all but the last
RECURSIVE decode_length(_, _)
decode_length(field, so_far) ==
    IF field = <<>> THEN 0 - 1
    ELSE IF field[1] < 128 THEN so_far * 128 + field[1]
    ELSE decode_length(Tail(field), so_far * 128 + (field[1] - 128))

\* a length field in the form of its length: one byte below 128, else four
\* bytes with the high bit set on the first three and clear on the last
length_form(field, len) ==
    /\ \A k \in 1..Len(field) : field[k] \in 0..255
    /\ IF len < 128
       THEN Len(field) = 1 /\ field[1] < 128
       ELSE /\ Len(field) = 4
            /\ \A k \in 1..3 : field[k] >= 128
            /\ field[4] < 128

\* C37: build_descriptor(tag, data) is the tag byte, the length of the data
\* as one byte when below 128 and else as four bytes of 7 bits each with the
\* high bit set on the first three and clear on the last, then the data;
\* the length field reads back as the length for every length below 2^28
C37_Descriptor ==
    /\ free_fn.ret.op = "build_descriptor"
       => LET tag == free_fn.args[1]
              data == free_fn.args[2]
              out == free_fn.ret.val[1]
              n == IF Len(data) < 128 THEN 1 ELSE 4
          IN  /\ Len(out) = 1 + n + Len(data)
              /\ out[1] = tag
              /\ length_form(SubSeq(out, 2, 1 + n), Len(data))
              /\ decode_length(SubSeq(out, 2, 1 + n), 0) = Len(data)
              /\ SubSeq(out, 2 + n, Len(out)) = data
    /\ free_fn.ret.op = "descriptor_length"
       => /\ length_form(free_fn.ret.val[1], free_fn.args[1])
          /\ decode_length(free_fn.ret.val[1], 0) = free_fn.args[1]

\* a descriptor of 128 bytes of data was written with the four-byte length
\* 80 80 81 00
C37_Witness ==
    /\ free_fn.ret.op = "build_descriptor"
    /\ Len(free_fn.args[2]) = 128
    /\ SubSeq(free_fn.ret.val[1], 1, 5) = <<free_fn.args[1], 128, 128, 129, 0>>

(***************************************************************************)
(* MuxerState of muxer.rs: its methods, and the callers' chunks            *)
(***************************************************************************)
\* the chunks pushed after init
MaxChunks == 3

\* an empty chunk, a chunk of one byte and the 100 zero bytes of the tests
ChunkData == {<<>>, <<101>>, Zeros(100)}

\* microseconds: the first two frames at about 30 frames per second
ChunkTimestamps == {0, 33333}

\* the default configuration, alone and with codec configurations
MuxerConfigs ==
    { MuxerConfig_default,
      [MuxerConfig_default EXCEPT
           !.video_codec_config = Some(<<1, 66, 192, 30, 255, 225, 0, 0, 0>>),
           !.audio_codec_config = Some(<<0, 0, 0, 0, 5, 2, 17, 144>>)] }

\* the other muxer of the crate is left alone
NoMuxide == UNCHANGED <<muxer, emitted, result, last_timestamp, free_fn>>

\* what a call leaves in the history: its arguments, what it returned and
\* the chunks of each track pushed with success so far
called(args, ret) ==
    [args |-> args, ret |-> ret,
     video_chunks |-> muxer_call.video_chunks
                      + (IF ret.op = "push_video_chunk" /\ ret.ok THEN 1 ELSE 0),
     audio_chunks |-> muxer_call.audio_chunks
                      + (IF ret.op = "push_audio_chunk" /\ ret.ok THEN 1 ELSE 0)]

\* init without the check for a muxer already initialized
MuxerState_init_again ==
    /\ muxer_state' = [muxer_state EXCEPT
                           !.buffer = write_ftyp \o write_moov(muxer_state.config),
                           !.initialized = TRUE]
    /\ muxer_call' = called(<<>>, Ok("init", <<>>))
    /\ NoMuxide

\* MuxerState::init
MuxerState_init ==
    /\ IF muxer_state.initialized
       THEN /\ muxer_call' = called(<<>>, Err("init", "Muxer already initialized"))
            /\ UNCHANGED muxer_state
       ELSE /\ muxer_state' =
                   [muxer_state EXCEPT
                        !.buffer = write_ftyp \o write_moov(muxer_state.config),
                        !.initialized = TRUE]
            /\ muxer_call' = called(<<>>, Ok("init", <<>>))
    /\ NoMuxide

\* MuxerState::push_video_chunk
MuxerState_push_video_chunk(data, timestamp, is_keyframe) ==
    /\ IF ~muxer_state.initialized
       THEN /\ muxer_call' = called(<<data, timestamp, is_keyframe>>,
                                    Err("push_video_chunk",
                                        "Muxer not initialized"))
            /\ UNCHANGED muxer_state
       ELSE LET counted == [muxer_state EXCEPT !.video_sequence_number = @ + 1]
                timestamp_scaled ==
                    ticks(timestamp, muxer_state.config.video_timescale)
            IN  /\ muxer_state' =
                       [counted EXCEPT
                            !.buffer = @ \o write_moof_video(counted,
                                                             timestamp_scaled,
                                                             Len(data),
                                                             is_keyframe)
                                         \o write_mdat(data)]
                /\ muxer_call' = called(<<data, timestamp, is_keyframe>>,
                                        Ok("push_video_chunk", <<>>))
    /\ NoMuxide

\* MuxerState::push_audio_chunk
MuxerState_push_audio_chunk(data, timestamp) ==
    /\ IF ~muxer_state.initialized
       THEN /\ muxer_call' = called(<<data, timestamp>>,
                                    Err("push_audio_chunk",
                                        "Muxer not initialized"))
            /\ UNCHANGED muxer_state
       ELSE LET counted == [muxer_state EXCEPT !.audio_sequence_number = @ + 1]
                timestamp_scaled ==
                    ticks(timestamp, muxer_state.config.audio_timescale)
            IN  /\ muxer_state' =
                       [counted EXCEPT
                            !.buffer = @ \o write_moof_audio(counted,
                                                             timestamp_scaled,
                                                             Len(data))
                                         \o write_mdat(data)]
                /\ muxer_call' = called(<<data, timestamp>>,
                                        Ok("push_audio_chunk", <<>>))
    /\ NoMuxide

\* MuxerState::get_fragment: std::mem::take of the buffer
MuxerState_get_fragment ==
    /\ muxer_state' = [muxer_state EXCEPT !.buffer = <<>>]
    /\ muxer_call' = called(<<>>, Ok("get_fragment", <<muxer_state.buffer>>))
    /\ NoMuxide

\* the caller pushes a video chunk
PushVideoChunk ==
    /\ muxer_state.video_sequence_number + muxer_state.audio_sequence_number
           < MaxChunks
    /\ \E data \in ChunkData, timestamp \in ChunkTimestamps,
          is_keyframe \in BOOLEAN :
           MuxerState_push_video_chunk(data, timestamp, is_keyframe)

\* the caller pushes an audio chunk
PushAudioChunk ==
    /\ muxer_state.video_sequence_number + muxer_state.audio_sequence_number
           < MaxChunks
    /\ \E data \in ChunkData, timestamp \in ChunkTimestamps :
           MuxerState_push_audio_chunk(data, timestamp)

\* MuxerState::new of one of the configurations, beside a MuxideMuxerState
\* that is never called
MuxerStateInit ==
    /\ config = video_config(<<>>, <<>>)
    /\ initialized = FALSE
    /\ init_segment = <<>>
    /\ pending_segments = <<>>
    /\ video_frame_count = 0
    /\ audio_frame_count = 0
    /\ video_samples = <<>>
    /\ video_sequence_number = 1
    /\ video_base_media_decode_time = 0
    /\ audio_samples = <<>>
    /\ audio_sequence_number = 1
    /\ audio_base_media_decode_time = 0
    /\ emitted = <<>>
    /\ result = Ok("new", <<>>)
    /\ last_timestamp = [video |-> 0, audio |-> 0, audio_duration |-> 0,
                         is_keyframe |-> FALSE]
    /\ free_fn = NoCall
    /\ muxer_state \in {MuxerState_new(cfg) : cfg \in MuxerConfigs}
    /\ muxer_call = NoMuxerStateCall

MuxerStateNext ==
    \/ MuxerState_init
    \/ PushVideoChunk
    \/ PushAudioChunk
    \/ MuxerState_get_fragment

MuxerStateSpec == MuxerStateInit /\ [][MuxerStateNext]_vars

\* the bytes a step of MuxerState put behind those the buffer held
appended == SubSeq(muxer_state'.buffer, Len(muxer_state.buffer) + 1,
                   Len(muxer_state'.buffer))

\* the step is a call of op
calls(op) == muxer_call'.ret.op = op

\* the buffer grew by one moof box and one mdat box whose payload is data
one_fragment_of(data) ==
    /\ Len(muxer_state'.buffer) >= Len(muxer_state.buffer)
    /\ SubSeq(muxer_state'.buffer, 1, Len(muxer_state.buffer))
           = muxer_state.buffer
    /\ LET bx == boxes(appended, 0, Len(appended))
       IN  /\ types_of(bx) = <<T.moof, T.mdat>>
           /\ SubSeq(appended, bx[2].off + 9, Len(appended)) = data

\* C38: MuxerState::init fills the buffer with bytes that start with an ftyp
\* box, and a second init fails; a push before init fails and appends
\* nothing; a push after init succeeds and appends one moof box and one mdat
\* box that carries the pushed data; get_fragment returns the bytes gathered
\* since the get_fragment before it and leaves the buffer empty
C38_Fragments ==
    /\ [](~muxer_state.initialized => muxer_state.buffer = <<>>)
    /\ [][/\ calls("init")
             => IF muxer_state.initialized
                THEN ~muxer_call'.ret.ok /\ muxer_state' = muxer_state
                ELSE /\ muxer_call'.ret.ok
                     /\ muxer_state'.initialized
                     /\ boxes(muxer_state'.buffer, 0,
                              Len(muxer_state'.buffer))[1].typ = T.ftyp
          /\ calls("push_video_chunk") \/ calls("push_audio_chunk")
             => IF muxer_state.initialized
                THEN /\ muxer_call'.ret.ok
                     /\ one_fragment_of(muxer_call'.args[1])
                ELSE ~muxer_call'.ret.ok /\ muxer_state' = muxer_state
          /\ calls("get_fragment")
             => /\ muxer_call'.ret.val = <<muxer_state.buffer>>
                /\ muxer_state'.buffer = <<>>
          /\ ~calls("get_fragment") /\ muxer_state.initialized
             => /\ Len(muxer_state'.buffer) >= Len(muxer_state.buffer)
                /\ SubSeq(muxer_state'.buffer, 1, Len(muxer_state.buffer))
                       = muxer_state.buffer]_vars

\* after init and a get_fragment, a video chunk of 100 bytes and an audio
\* chunk of one byte were pushed and the next get_fragment returned their
\* two fragments
C38_Witness ==
    /\ muxer_call.ret.op = "get_fragment"
    /\ muxer_state.buffer = <<>>
    /\ muxer_state.initialized
    /\ LET fragment == muxer_call.ret.val[1]
           bx == boxes(fragment, 0, Len(fragment))
       IN  /\ types_of(bx) = <<T.moof, T.mdat, T.moof, T.mdat>>
           /\ bx[2].size = 108
           /\ bx[4].size = 9

\* C39: the data_offset in the trun of every fragment of MuxerState, 96 + 8,
\* is the length of the moof box of the fragment plus the 8 bytes of the
\* mdat header, whatever the length of the chunk, and the mfhd of the k-th
\* chunk of a track pushed with success carries the sequence number k
C39_DataOffset ==
    [][\A track_id \in {1, 2} :
           calls(IF track_id = 1 THEN "push_video_chunk" ELSE "push_audio_chunk")
           /\ muxer_call'.ret.ok
           => LET bx == boxes(appended, 0, Len(appended))
              IN  /\ traf_track_ids(appended) = <<track_id>>
                  /\ trun_data_offset(appended, track_id) = 96 + 8
                  /\ trun_data_offset(appended, track_id) = bx[1].size + 8
                  /\ trun_data_offset(appended, track_id) = bx[2].off + 8
                  /\ mfhd_sequence_number(appended)
                         = (IF track_id = 1 THEN muxer_call'.video_chunks
                            ELSE muxer_call'.audio_chunks)]_vars

\* the third chunk pushed is the second audio chunk: its mfhd carries 2 and
\* its trun the offset 104, behind a moof of 96 bytes
C39_Witness ==
    /\ muxer_call.ret.op = "push_audio_chunk"
    /\ muxer_call.audio_chunks = 2
    /\ muxer_call.video_chunks = 1
    /\ Len(muxer_call.args[1]) = 100
    /\ LET n == Len(muxer_state.buffer)
           fragment == SubSeq(muxer_state.buffer, n - 203, n)
       IN  /\ n >= 204
           /\ mfhd_sequence_number(fragment) = 2
           /\ trun_data_offset(fragment, 2) = 104
           /\ moof_of(fragment).size = 96

====
